---------------------------- MODULE Spec2Model ----------------------------
(***************************************************************************)
(* A model of Jaal, a code-first GraphQL server framework (Go).           *)
(*                                                                         *)
(* The module holds these state machines over one set of variables:       *)
(*   SpecScalar    the global scalar registry (schemabuilder.RegisterScalar)*)
(*   SpecInput     coercion of JSON values into input objects             *)
(*   SpecHTTP      the HTTP handler serving requests on a built schema     *)
(*   SpecTransport one request on any response writer and URL path        *)
(*   SpecIntro     the introspection overlay (AddIntrospectionToSchema)    *)
(*   SpecBuild     input-object registration, Build, introspection        *)
(*   SpecTypeInfo  scalar registration, Build, per-type introspection     *)
(*   SpecGenerate  generation of the argument parsers                      *)
(*   SpecRoots     the root objects Query(), Mutation(), Subscription()   *)
(*   SpecExec      one run of the executor over an operation              *)
(* Each specification moves its own variables and leaves the others at    *)
(* their initial value.                                                   *)
(***************************************************************************)
EXTENDS Integers, Sequences, FiniteSets, TLC

VARIABLES
    scalars,                \* schemabuilder: map reflect.Type -> GraphQL name
    scalarSpecifiedByURLs,  \* schemabuilder: map reflect.Type -> URL
    scalarArgParsers,       \* schemabuilder: map reflect.Type -> parser
    regRet,                 \* the last RegisterScalar call and what it returned
    coerceJob,              \* the (type, JSON value) handed to an argParser
    coerceOut,              \* what FromJSON returned, called and wrote
    sb,                     \* schemabuilder: the registered input objects
    schema,                 \* graphql.Schema: the three root pointers
    heap,                   \* the graphql.Type values, by address
    is,                     \* the introspection struct of the overlay
    probe,                  \* the last introspection/root field resolved
    reqs,                   \* the requests in flight in ServeHTTP
    wr,                     \* what net/http hands ServeHTTP: w's header, r.URL.Path
    ex,                     \* one run of Executor.Execute over an operation
    gp,                     \* schemabuilder: one run of makeInputObjectParser
    rb                      \* schemabuilder.Schema: the root objects and their handles

scalarVars == <<scalars, scalarSpecifiedByURLs, scalarArgParsers, regRet>>
inputVars  == <<coerceJob, coerceOut, sb>>
schemaVars == <<schema, heap, is>>
vars == <<scalars, scalarSpecifiedByURLs, scalarArgParsers, regRet,
          coerceJob, coerceOut, sb, schema, heap, is, probe, reqs, wr, ex, gp, rb>>

Range(f) == {f[x] : x \in DOMAIN f}

EmptyMap == [k \in {} |-> "none"]

(***************************************************************************)
(* SCALAR REGISTRY                                                         *)
(***************************************************************************)

\* Native Go types a caller may hand to RegisterScalar.  "PtrT1" is of pointer
\* kind, "TU" implements json.Unmarshaler, "T1" is a plain type.
NativeTypes == {"T1", "TU", "PtrT1"}

IsPtrKind(typ) == typ = "PtrT1"

ImplementsUnmarshaler(typ) == typ = "TU"

ScalarNames == {"String", "UUID"}

\* UnmarshalFunc arguments: nil or a caller-supplied function.
UnmarshalFuncs == {"nil", "uf1"}

URLs == {"", "url1", "url2"}

\* given: per native type, the URL its most recent successful registration
\* supplied, "" when it supplied none.
NoCall ==
    [fn |-> "none", typ |-> "none", name |-> "none", err |-> "nil",
     given |-> EmptyMap]

\* What a call leaves in regRet: a call that returned nil is the most recent
\* successful registration of typ.
Returned(fn, typ, name, err, url) ==
    [fn |-> fn, typ |-> typ, name |-> name, err |-> err,
     given |-> IF err = "nil"
               THEN [t \in DOMAIN regRet.given \cup {typ} |->
                        IF t = typ THEN url ELSE regRet.given[t]]
               ELSE regRet.given]

\* The registry before any user registration: the built-in String scalar.
InitScalar ==
    /\ scalars = [t \in {"string"} |-> "String"]
    /\ scalarSpecifiedByURLs = EmptyMap
    /\ scalarArgParsers = [t \in {"string"} |-> "builtin"]
    /\ regRet = NoCall

\* The parser RegisterScalar stores: the caller's function, or the wrapper
\* around the type's UnmarshalJSON method when uf is nil.
ScalarParserFor(uf) == IF uf = "nil" THEN "UnmarshalJSON" ELSE uf

\* The checks RegisterScalar makes before it touches the registry.
RegisterScalarPreErr(typ, uf) ==
    IF IsPtrKind(typ) THEN "type should not be of pointer type"
    ELSE IF uf = "nil" /\ ~ImplementsUnmarshaler(typ)
         THEN "either UnmarshalFunc should be provided or the provided type should implement json.Unmarshaler interface"
         ELSE "nil"

\* RegisterScalar(typ, name, uf, opts ...ScalarOption): the options form.
RegisterScalar(typ, name, uf, url) ==
    LET pre == RegisterScalarPreErr(typ, uf) IN
    IF pre # "nil"
    THEN /\ regRet' = Returned("RegisterScalar", typ, name, pre, url)
         /\ UNCHANGED <<rb, gp, ex, wr, scalars, scalarSpecifiedByURLs, scalarArgParsers>>
    ELSE /\ scalars' = [t \in DOMAIN scalars \cup {typ} |->
                           IF t = typ THEN name ELSE scalars[t]]
         /\ scalarSpecifiedByURLs' =
               IF url # ""
               THEN [t \in DOMAIN scalarSpecifiedByURLs \cup {typ} |->
                        IF t = typ THEN url ELSE scalarSpecifiedByURLs[t]]
               ELSE scalarSpecifiedByURLs
         /\ scalarArgParsers' = [t \in DOMAIN scalarArgParsers \cup {typ} |->
                           IF t = typ THEN ScalarParserFor(uf) ELSE scalarArgParsers[t]]
         /\ regRet' = Returned("RegisterScalar", typ, name, "nil", url)

\* RegisterScalar(typ, name, uf, specifiedByURL ...string): the variadic form.
\* The name is stored before the number of URLs is checked.
RegisterScalarVariadic(typ, name, uf, urls) ==
    LET pre == RegisterScalarPreErr(typ, uf) IN
    IF pre # "nil"
    THEN /\ regRet' = Returned("RegisterScalarVariadic", typ, name, pre, "")
         /\ UNCHANGED <<rb, gp, ex, wr, scalars, scalarSpecifiedByURLs, scalarArgParsers>>
    ELSE /\ scalars' = [t \in DOMAIN scalars \cup {typ} |->
                           IF t = typ THEN name ELSE scalars[t]]
         /\ IF Len(urls) > 1
            THEN /\ regRet' = Returned("RegisterScalarVariadic", typ, name,
                                    "at most one specifiedByURL allowed", "")
                 /\ UNCHANGED <<rb, gp, ex, wr, scalarSpecifiedByURLs, scalarArgParsers>>
            ELSE /\ scalarSpecifiedByURLs' =
                       IF Len(urls) = 1
                       THEN [t \in DOMAIN scalarSpecifiedByURLs \cup {typ} |->
                                IF t = typ THEN urls[1] ELSE scalarSpecifiedByURLs[t]]
                       ELSE scalarSpecifiedByURLs
                 /\ scalarArgParsers' = [t \in DOMAIN scalarArgParsers \cup {typ} |->
                           IF t = typ THEN ScalarParserFor(uf) ELSE scalarArgParsers[t]]
                 /\ regRet' = Returned("RegisterScalarVariadic", typ, name, "nil",
                                    IF Len(urls) = 1 THEN urls[1] ELSE "")

\* getScalarSpecifiedByURL(typ): "" when no URL is recorded.
getScalarSpecifiedByURL(typ) ==
    IF typ \in DOMAIN scalarSpecifiedByURLs THEN scalarSpecifiedByURLs[typ] ELSE ""

\* The URL lists a caller of the variadic form may pass (0, 1 or 2 URLs).
URLLists == {<<>>} \cup {<<u>> : u \in URLs} \cup {<<"url1", "url2">>}

CallRegisterScalar ==
    /\ \E typ \in NativeTypes, name \in ScalarNames, uf \in UnmarshalFuncs, url \in URLs :
          RegisterScalar(typ, name, uf, url)
    /\ UNCHANGED <<rb, gp, ex, wr, inputVars, schemaVars, probe, reqs>>

CallRegisterScalarVariadic ==
    /\ \E typ \in NativeTypes, name \in ScalarNames, uf \in UnmarshalFuncs, urls \in URLLists :
          RegisterScalarVariadic(typ, name, uf, urls)
    /\ UNCHANGED <<rb, gp, ex, wr, inputVars, schemaVars, probe, reqs>>

(***************************************************************************)
(* INPUT COERCION                                                          *)
(***************************************************************************)

\* JSON-like values as the parser hands them to an argParser.  JStr is a
\* well-typed scalar literal, JBad a literal of the wrong scalar type.
JNull == [t |-> "null", m |-> EmptyMap]
JStr  == [t |-> "str",  m |-> EmptyMap]
JBad  == [t |-> "bad",  m |-> EmptyMap]
JObj(m) == [t |-> "obj", m |-> m]

LeafValues == {JNull, JStr, JBad}

\* How a field's source type is parsed: a scalar or a registered input
\* object, behind a pointer (wrapPtrParser) or not.
Leaf(ptr)  == [kind |-> "scalar", ptr |-> ptr, typ |-> ""]
Nested(T)  == [kind |-> "object", ptr |-> FALSE, typ |-> T]

\* The input types of the example schema.  registered: an InputObject
\* registered with FieldFunc callables (else an inline args struct);
\* marker: the Go struct embeds schemabuilder.OneOfInput.
InputTypes ==
    [IdentifierInput |->
        [registered |-> TRUE, marker |-> TRUE,
         fields |-> [id |-> Leaf(TRUE), email |-> Leaf(TRUE)]],
     CreateUserByContactInput |->
        [registered |-> TRUE, marker |-> FALSE,
         fields |-> [identifier |-> Nested("IdentifierInput"), name |-> Leaf(FALSE)]],
     args |->
        [registered |-> FALSE, marker |-> FALSE,
         fields |-> [by |-> Nested("IdentifierInput"), limit |-> Leaf(TRUE)]],
     ContactByArgs |->
        [registered |-> FALSE, marker |-> TRUE,
         fields |-> [email |-> Leaf(TRUE), phone |-> Leaf(TRUE)]]]

InputTypeNames == DOMAIN InputTypes

FieldsOf(T) == DOMAIN InputTypes[T].fields

FieldSpec(T, f) == InputTypes[T].fields[f]

\* hasOneOfMarkerEmbedded(typ): an anonymous field of type OneOfInput.
hasOneOfMarkerEmbedded(T) == InputTypes[T].marker

\* graphql.InputObject.OneOf as generateArgParser and
\* generateObjectParserInner set it: from the embedded marker.
OneOf(T) == hasOneOfMarkerEmbedded(T)

\* Keys a client may send that no type declares.
UnknownKeys == {"zz"}

Extend(m, k, v) == [x \in DOMAIN m \cup {k} |-> IF x = k THEN v ELSE m[x]]

LeafMaps(keys) == UNION {[S -> LeafValues] : S \in SUBSET keys}

NestedFieldsOf(T) == {f \in FieldsOf(T) : FieldSpec(T, f).kind = "object"}

\* The JSON objects tried against type T: every subset of its keys and the
\* unknown keys, leaf fields over LeafValues, an object field over leaf
\* values and the objects of its own type.
RECURSIVE ObjectsFor(_)
ObjectsFor(T) ==
    LET leafKeys == (FieldsOf(T) \ NestedFieldsOf(T)) \cup UnknownKeys
        base == LeafMaps(leafKeys)
    IN  {JObj(m) : m \in base}
        \cup UNION {{JObj(Extend(m, f, v)) :
                        m \in base,
                        v \in LeafValues \cup ObjectsFor(FieldSpec(T, f).typ)}
                    : f \in NestedFieldsOf(T)}

ValuesFor(T) == {JNull, JStr} \cup ObjectsFor(T)

ErrNil == [kind |-> "nil", subject |-> "", path |-> <<>>]
Err(kind, subject) == [kind |-> kind, subject |-> subject, path |-> <<>>]
\* fmt.Errorf("%s: %s", name, err)
Prefix(name, e) == [e EXCEPT !.path = <<name>> \o @]

Out(err, calls, wrote) == [err |-> err, calls |-> calls, wrote |-> wrote]

NonNullCount(asMap) == Cardinality({k \in DOMAIN asMap : asMap[k].t # "null"})

\* validateOneOfInput(name, asMap): exactly one entry of the raw map is not
\* JSON null, else an error naming the input type.
validateOneOfInput(name, asMap) ==
    IF NonNullCount(asMap) = 1 THEN ErrNil ELSE Err("oneOf", name)

\* A scalar's parser: accepts a literal of its type.
ScalarFromJSON(value) ==
    IF value.t = "str" THEN ErrNil ELSE Err("notScalar", "")

RECURSIVE FieldParse(_, _), FromJSONRegistered(_, _), RegisteredLoop(_, _, _, _)

\* The parser of one field (getInputFieldParser): the set of outcomes it can
\* have.  wrapPtrParser leaves a nil pointer for JSON null.
FieldParse(spec, value) ==
    IF spec.ptr /\ value.t = "null" THEN {Out(ErrNil, {}, TRUE)}
    ELSE IF spec.kind = "scalar"
         THEN LET e == ScalarFromJSON(value) IN {Out(e, {}, e.kind = "nil")}
         ELSE FromJSONRegistered(spec.typ, value)

\* The field loop of a registered input object.  Go ranges over the fields
\* map in any order; a key the object lacks is skipped; the field's parser
\* runs, then the FieldFunc callable <<T, f>> is called on the target.
RegisteredLoop(T, asMap, remaining, calls) ==
    IF remaining = {} THEN {Out(ErrNil, calls, TRUE)}
    ELSE UNION {
           IF f \notin DOMAIN asMap
           THEN RegisteredLoop(T, asMap, remaining \ {f}, calls)
           ELSE UNION {
                  IF o.err.kind # "nil"
                  THEN {Out(Prefix(f, o.err), calls \cup o.calls, FALSE)}
                  ELSE RegisteredLoop(T, asMap, remaining \ {f},
                                      calls \cup o.calls \cup {<<T, f>>})
                  : o \in FieldParse(FieldSpec(T, f), asMap[f])}
           : f \in remaining}

\* Mutant: the oneOf check is skipped.
FromJSONRegistered_NoOneOfCheck(T, value) ==
    IF value.t # "obj" THEN {Out(Err("notObject", ""), {}, FALSE)}
    ELSE RegisteredLoop(T, value.m, FieldsOf(T), {})

\* Mutant: the oneOf check runs after the fields were converted.
FromJSONRegistered_CheckLast(T, value) ==
    IF value.t # "obj" THEN {Out(Err("notObject", ""), {}, FALSE)}
    ELSE LET oneOfErr == IF OneOf(T) THEN validateOneOfInput(T, value.m) ELSE ErrNil
         IN  {IF o.err.kind = "nil" /\ oneOfErr.kind # "nil"
              THEN Out(oneOfErr, o.calls, FALSE) ELSE o
              : o \in RegisteredLoop(T, value.m, FieldsOf(T), {})}

\* argParser.FromJSON of a registered InputObject (generateObjectParserInner).
FromJSONRegistered(T, value) ==
    IF value.t # "obj" THEN {Out(Err("notObject", ""), {}, FALSE)}
    ELSE LET oneOfErr == IF OneOf(T) THEN validateOneOfInput(T, value.m) ELSE ErrNil
         IN  IF oneOfErr.kind # "nil"
             THEN {Out(oneOfErr, {}, FALSE)}
             ELSE RegisteredLoop(T, value.m, FieldsOf(T), {})

\* The closing loop of an inline args struct: any key of the object that is
\* no field fails the coercion.
UnknownArgCheck(T, asMap, calls, wrote) ==
    LET unknown == DOMAIN asMap \ FieldsOf(T) IN
    IF unknown = {} THEN {Out(ErrNil, calls, wrote)}
    ELSE {Out(Err("unknownArg", k), calls, wrote) : k \in unknown}

\* The field loop of an inline args struct: every field is parsed, a missing
\* key as nil, straight into the destination's field.
RECURSIVE InlineLoop(_, _, _, _, _)
InlineLoop(T, asMap, remaining, calls, wrote) ==
    IF remaining = {} THEN UnknownArgCheck(T, asMap, calls, wrote)
    ELSE UNION {
           LET value == IF f \in DOMAIN asMap THEN asMap[f] ELSE JNull IN
           UNION {
             IF o.err.kind # "nil"
             THEN {Out(Prefix(f, o.err), calls \cup o.calls, wrote)}
             ELSE InlineLoop(T, asMap, remaining \ {f}, calls \cup o.calls, TRUE)
             : o \in FieldParse(FieldSpec(T, f), value)}
           : f \in remaining}

\* argParser.FromJSON of an inline args struct (makeInputObjectParser).
FromJSONInline(T, value) ==
    IF value.t # "obj" THEN {Out(Err("notObject", ""), {}, FALSE)}
    ELSE LET oneOfErr == IF OneOf(T) THEN validateOneOfInput(T, value.m) ELSE ErrNil
         IN  IF oneOfErr.kind # "nil"
             THEN {Out(oneOfErr, {}, FALSE)}
             ELSE InlineLoop(T, value.m, FieldsOf(T), {}, FALSE)

InitInputIdle ==
    /\ coerceJob = [typ |-> "none", value |-> JNull]
    /\ coerceOut = Out(ErrNil, {}, FALSE)

\* A registered InputObject's parser is run on a value.  The parser keeps
\* no state between runs, so one run from the idle state covers them all.
CoerceRegistered ==
    /\ coerceJob.typ = "none"
    /\ \E T \in {n \in InputTypeNames : InputTypes[n].registered} :
         \E value \in ValuesFor(T) :
           \E o \in FromJSONRegistered(T, value) :
              /\ coerceJob' = [typ |-> T, value |-> value]
              /\ coerceOut' = o
    /\ UNCHANGED <<rb, gp, ex, wr, scalarVars, sb, schemaVars, probe, reqs>>

\* An inline args struct's parser is run on a field's arguments.
CoerceInline ==
    /\ coerceJob.typ = "none"
    /\ \E T \in {n \in InputTypeNames : ~InputTypes[n].registered} :
         \E value \in ValuesFor(T) :
           \E o \in FromJSONInline(T, value) :
              /\ coerceJob' = [typ |-> T, value |-> value]
              /\ coerceOut' = o
    /\ UNCHANGED <<rb, gp, ex, wr, scalarVars, sb, schemaVars, probe, reqs>>

(***************************************************************************)
(* THE TYPE MODEL (graphql.Type) AND THE BUILT SCHEMA                      *)
(***************************************************************************)

\* A graphql.Type value.  Scalar and Enum carry their name in Type; List
\* and NonNull carry the address of the wrapped type in Type.
Node ==
    [kind |-> "nil", Name |-> "", Type |-> "nil", Fields |-> EmptyMap,
     Types |-> {}, InputFields |-> EmptyMap, FieldDeprecations |-> EmptyMap,
     OneOf |-> FALSE, ReverseMap |-> {}, SpecifiedByURL |-> ""]

Scalar(Type) == [Node EXCEPT !.kind = "Scalar", !.Type = Type]

\* A custom scalar as the build attaches getScalarSpecifiedByURL(typ) to it.
ScalarSpecifiedBy(Type, SpecifiedByURL) ==
    [Node EXCEPT !.kind = "Scalar", !.Type = Type,
                 !.SpecifiedByURL = SpecifiedByURL]

Enum(Type, ReverseMap) ==
    [Node EXCEPT !.kind = "Enum", !.Type = Type, !.ReverseMap = ReverseMap]

Object(Name, Fields) ==
    [Node EXCEPT !.kind = "Object", !.Name = Name, !.Fields = Fields]

List(Type) == [Node EXCEPT !.kind = "List", !.Type = Type]

NonNull(Type) == [Node EXCEPT !.kind = "NonNull", !.Type = Type]

InputObject(Name, InputFields, FieldDeprecations, oneOf) ==
    [Node EXCEPT !.kind = "InputObject", !.Name = Name,
                 !.InputFields = InputFields,
                 !.FieldDeprecations = FieldDeprecations,
                 !.OneOf = oneOf]

Union(Name, Types) == [Node EXCEPT !.kind = "Union", !.Name = Name, !.Types = Types]

Interface(Name, Fields, Types) ==
    [Node EXCEPT !.kind = "Interface", !.Name = Name, !.Fields = Fields,
                 !.Types = Types]

\* graphql.Field: the resolver, the result type, the arguments.
Field(Resolve, Type, Args, IsDeprecated) ==
    [Resolve |-> Resolve, Type |-> Type, Args |-> Args,
     IsDeprecated |-> IsDeprecated]

\* A field the user registered with FieldFunc on object obj.
UserField(obj, name, Type, Args, IsDeprecated) ==
    Field(<<"user", obj, name>>, Type, Args, IsDeprecated)

\* Query fields a user schema may or may not register besides `me`.
\* Object.FieldFunc takes any name that is not registered yet, `__type`
\* and `__schema` included.
OptionalQueryFields == {"node", "search", "legacy", "__type", "__schema"}

UserQueryField(f) ==
    CASE f = "me"     -> UserField("Query", f, "User", EmptyMap, FALSE)
      [] f = "node"   -> UserField("Query", f, "Node", [id |-> "ID!"], FALSE)
      [] f = "search" -> UserField("Query", f, "[SearchResult]", EmptyMap, FALSE)
      [] f = "legacy" -> UserField("Query", f, "String", EmptyMap, TRUE)
      [] f = "__type" -> UserField("Query", f, "String", [name |-> "String"], FALSE)
      [] f = "__schema" -> UserField("Query", f, "String", EmptyMap, FALSE)

(***************************************************************************)
(* INPUT OBJECT REGISTRATION (schemabuilder.InputObject)                   *)
(***************************************************************************)

\* A schemabuilder.InputObject as Schema.InputObject(name, typ) leaves it.
\* marker and tags are what the Go struct typ carries: an embedded
\* OneOfInput, and the `graphql:",deprecated=..."` tags by field name.
RegisteredInputObject(Name, marker, tags) ==
    [Name |-> Name, marker |-> marker, tags |-> tags, Fields |-> EmptyMap,
     FieldDeprecations |-> EmptyMap, IsOneOf |-> FALSE]

\* The graphql type of the source parameter of each field's callable.
InputFieldTypes ==
    [CreateUserInput |-> [name |-> "String", age |-> "Int",
                          identifier |-> "IdentifierInput"],
     IdentifierInput |-> [id |-> "ID", email |-> "String"]]

\* The Deprecated(reason) option; "" is the option left out.
DeprecatedReasons == {"", "Use birthdate instead"}

\* InputObject.MarkOneOf()
MarkOneOf(io) == [io EXCEPT !.IsOneOf = TRUE]

\* InputObject.FieldFunc(name, function, opts...)
InputObject_FieldFunc(io, name, deprecated) ==
    [io EXCEPT !.Fields = Extend(@, name, InputFieldTypes[io.Name][name]),
               !.FieldDeprecations =
                    IF deprecated # "" THEN Extend(@, name, deprecated) ELSE @]

\* generateObjectParserInner(typ), the graphql.InputObject it returns for a
\* registered input object: FieldDeprecations from the struct tags, OneOf
\* from the embedded marker, InputFields from obj.Fields.
generateObjectParserInner(obj) ==
    InputObject(obj.Name, obj.Fields, obj.tags, obj.marker)

\* The input objects of the example: the struct of CreateUserInput tags
\* age as deprecated, the struct of IdentifierInput embeds OneOfInput.
ExampleInputObjects ==
    [CreateUserInput |->
        [RegisteredInputObject("CreateUserInput", FALSE, [age |-> "use birthdate"])
            EXCEPT !.Fields = InputFieldTypes["CreateUserInput"]],
     IdentifierInput |->
        [RegisteredInputObject("IdentifierInput", TRUE, EmptyMap)
            EXCEPT !.Fields = InputFieldTypes["IdentifierInput"]]]

InitBuilderExample == sb = [built |-> TRUE, inputObjects |-> ExampleInputObjects]

\* The graphql.Type values of a users schema in the style of
\* example/users: an object graph with a cycle (User.friends), an interface
\* with two implementers, a union, an enum, input objects (one OneOf, one
\* with a deprecated field) and the wrappers.  qf: the optional Query
\* fields registered; mf: whether the schema registers a mutation.
BuiltHeap(qf, mf, objs) ==
    ("Query" :> Object("Query", [f \in {"me"} \cup qf |-> UserQueryField(f)]))
    @@ ("Mutation" :> Object("Mutation",
            IF mf
            THEN [createUser |-> UserField("Mutation", "createUser", "User",
                                           [input |-> "CreateUserInput!"], FALSE)]
            ELSE EmptyMap))
    @@ ("Subscription" :> Object("Subscription", EmptyMap))
    @@ ("User" :> Object("User",
            [id      |-> UserField("User", "id", "ID!", EmptyMap, FALSE),
             name    |-> UserField("User", "name", "String", EmptyMap, FALSE),
             oldName |-> UserField("User", "oldName", "String", EmptyMap, TRUE),
             role    |-> UserField("User", "role", "Role", EmptyMap, FALSE),
             friends |-> UserField("User", "friends", "[User]", EmptyMap, FALSE)]))
    @@ ("DeletedUser" :> Object("DeletedUser",
            [id |-> UserField("DeletedUser", "id", "ID!", EmptyMap, FALSE)]))
    @@ ("Node" :> Interface("Node",
            [id |-> UserField("Node", "id", "ID!", EmptyMap, FALSE)],
            {"User", "DeletedUser"}))
    @@ ("SearchResult" :> Union("SearchResult", {"User", "DeletedUser"}))
    @@ ("Role" :> Enum("Role", {"ADMIN", "MEMBER"}))
    @@ ("CreateUserInput" :> generateObjectParserInner(objs["CreateUserInput"]))
    @@ ("IdentifierInput" :> generateObjectParserInner(objs["IdentifierInput"]))
    @@ ("ID" :> Scalar("ID"))
    @@ ("String" :> Scalar("String"))
    @@ ("Int" :> Scalar("Int"))
    @@ ("ID!" :> NonNull("ID"))
    @@ ("CreateUserInput!" :> NonNull("CreateUserInput"))
    @@ ("[User]" :> List("User"))
    @@ ("[SearchResult]" :> List("SearchResult"))

UserHeap(qf, mf) == BuiltHeap(qf, mf, ExampleInputObjects)

NoIntrospection ==
    [set |-> FALSE, types |-> EmptyMap, query |-> "nil", mutation |-> "nil",
     subscription |-> "nil"]

NoProbe ==
    [op |-> "none", name |-> "", includeDeprecated |-> "omitted",
     resolver |-> <<>>, isNull |-> TRUE, rname |-> "", rkind |-> "",
     entries |-> {}, err |-> "nil", directives |-> {}, sorted |-> EmptyMap,
     type |-> "nil", specifiedByURL |-> "null"]

\* The schema Build() returned: the three roots over the user's types.
InitSchema(qf, mf) ==
    /\ heap = UserHeap(qf, mf)
    /\ schema = [Query |-> "Query", Mutation |-> "Mutation",
                 Subscription |-> "Subscription"]
    /\ is = NoIntrospection
    /\ probe = NoProbe

InitSchemaExample == InitSchema({"node", "search"}, TRUE)

\* Before Build(): the input objects are registered; their
\* structs may or may not embed OneOfInput or tag age as deprecated.
InitUnbuilt ==
    /\ \E marker \in BOOLEAN, tags \in {EmptyMap, [age |-> "use birthdate"]} :
          sb = [built |-> FALSE,
                inputObjects |->
                   [CreateUserInput |->
                       InputObject_FieldFunc(
                           RegisteredInputObject("CreateUserInput", FALSE, tags),
                           "identifier", ""),
                    IdentifierInput |->
                       RegisteredInputObject("IdentifierInput", marker, EmptyMap)]]
    /\ heap = EmptyMap
    /\ schema = [Query |-> "nil", Mutation |-> "nil", Subscription |-> "nil"]
    /\ is = NoIntrospection
    /\ probe = NoProbe

\* input.MarkOneOf() on a registered input object, before the schema is built.
CallMarkOneOf ==
    /\ ~sb.built
    /\ \E T \in DOMAIN sb.inputObjects :
          sb' = [sb EXCEPT !.inputObjects[T] = MarkOneOf(@)]
    /\ UNCHANGED <<rb, gp, ex, wr, scalarVars, coerceJob, coerceOut, schemaVars, probe, reqs>>

\* input.FieldFunc(name, function) with or without Deprecated(reason).
CallInputObjectFieldFunc ==
    /\ ~sb.built
    /\ \E T \in DOMAIN sb.inputObjects :
         \E name \in DOMAIN InputFieldTypes[T], deprecated \in DeprecatedReasons :
            sb' = [sb EXCEPT !.inputObjects[T] =
                                 InputObject_FieldFunc(@, name, deprecated)]
    /\ UNCHANGED <<rb, gp, ex, wr, scalarVars, coerceJob, coerceOut, schemaVars, probe, reqs>>

\* The native types registered as scalars besides the built-in string.
CustomScalarTypes == DOMAIN scalars \ {"string"}

\* The built types with the registered custom scalars added: each is a
\* graphql.Scalar under its registered name that carries
\* getScalarSpecifiedByURL(typ), and is the type of a Query field.
WithCustomScalars(h) ==
    [a \in {scalars[typ] : typ \in CustomScalarTypes} |->
        LET typ == CHOOSE x \in CustomScalarTypes : scalars[x] = a
        IN  ScalarSpecifiedBy(a, getScalarSpecifiedByURL(typ))]
    @@ [h EXCEPT !["Query"].Fields =
           [typ \in CustomScalarTypes |->
               UserField("Query", typ, scalars[typ], EmptyMap, FALSE)] @@ @]

\* RegisterScalar at program start, before the schema is built: each native
\* type is registered once, under a name no scalar has yet.
CallRegisterScalarOnce ==
    /\ ~sb.built
    /\ \E typ \in NativeTypes \ DOMAIN scalars,
          name \in ScalarNames \ Range(scalars),
          uf \in UnmarshalFuncs, url \in URLs :
          RegisterScalar(typ, name, uf, url)
    /\ UNCHANGED <<rb, gp, ex, wr, inputVars, schemaVars, probe, reqs>>

\* Schema.Build(): the graphql types of the registrations; each registered
\* input object goes through generateObjectParserInner.
Build ==
    /\ ~sb.built
    /\ sb' = [sb EXCEPT !.built = TRUE]
    /\ heap' = WithCustomScalars(BuiltHeap({"node", "search"}, TRUE, sb.inputObjects))
    /\ schema' = [Query |-> "Query", Mutation |-> "Mutation",
                  Subscription |-> "Subscription"]
    /\ UNCHANGED <<rb, gp, ex, wr, scalarVars, coerceJob, coerceOut, is, probe, reqs>>

(***************************************************************************)
(* THE INTROSPECTION OVERLAY                                               *)
(***************************************************************************)

IntrospectionField(obj, name, Type, Args) ==
    Field(<<"introspection", obj, name>>, Type, Args, FALSE)

\* registerQuery: the two fields of the overlay's Query object.
OverlayQueryFields ==
    [__schema |-> IntrospectionField("Query", "__schema", "is.__Schema", EmptyMap),
     __type   |-> IntrospectionField("Query", "__type", "is.__Type",
                                     [name |-> "is.String"])]

\* The fields of an overlay object whose results are all of one shape.
OverlayFields(obj, typeOf) ==
    [f \in DOMAIN typeOf |-> IntrospectionField(obj, f, typeOf[f], EmptyMap)]

\* includeDeprecated is an argument of `fields` and `enumValues` only.
OverlayTypeFields ==
    [f \in {"kind", "name", "description", "directives", "interfaces",
            "possibleTypes", "inputFields", "fields", "ofType", "enumValues",
            "specifiedByURL"} |->
        IntrospectionField("__Type", f,
            CASE f \in {"kind", "name", "description", "specifiedByURL"} -> "is.String"
              [] f = "directives" -> "is.[__Directive]"
              [] f \in {"interfaces", "possibleTypes"} -> "is.[__Type]"
              [] f = "inputFields" -> "is.[__InputValue]"
              [] f = "fields" -> "is.[__Field]"
              [] f = "ofType" -> "is.__Type"
              [] f = "enumValues" -> "is.[__EnumValue]",
            IF f \in {"fields", "enumValues"}
            THEN [includeDeprecated |-> "is.Boolean"] ELSE EmptyMap)]

\* introspection.schema(): the graphql.Type values of the overlay schema,
\* with queryFields the field map of its Query object.
isSchema(queryFields) ==
    ("is.Query" :> Object("Query", queryFields))
    @@ ("is.Mutation" :> Object("Mutation", EmptyMap))
    @@ ("is.Subscription" :> Object("Subscription", EmptyMap))
    @@ ("is.__Schema" :> Object("__Schema", OverlayFields("__Schema",
            [types |-> "is.[__Type]", queryType |-> "is.__Type",
             mutationType |-> "is.__Type", subscriptionType |-> "is.__Type",
             directives |-> "is.[__Directive]"])))
    @@ ("is.__Type" :> Object("__Type", OverlayTypeFields))
    @@ ("is.__Field" :> Object("__Field", OverlayFields("__Field",
            [name |-> "is.String", description |-> "is.String",
             type |-> "is.__Type", args |-> "is.[__InputValue]",
             isDeprecated |-> "is.Boolean", deprecationReason |-> "is.String"])))
    @@ ("is.__InputValue" :> Object("__InputValue", OverlayFields("__InputValue",
            [name |-> "is.String", description |-> "is.String",
             type |-> "is.__Type", defaultValue |-> "is.String",
             isDeprecated |-> "is.Boolean", deprecationReason |-> "is.String"])))
    @@ ("is.__EnumValue" :> Object("__EnumValue", OverlayFields("__EnumValue",
            [name |-> "is.String", description |-> "is.String",
             isDeprecated |-> "is.Boolean", deprecationReason |-> "is.String"])))
    @@ ("is.__Directive" :> Object("__Directive", OverlayFields("__Directive",
            [name |-> "is.String", description |-> "is.String",
             locations |-> "is.[DirectiveLocation]", args |-> "is.[__InputValue]"])))
    @@ ("is.DirectiveLocation" :> Enum("DirectiveLocation",
            {"QUERY", "MUTATION", "FIELD", "FRAGMENT_DEFINITION",
             "FRAGMENT_SPREAD", "INLINE_FRAGMENT", "SUBSCRIPTION", "SCALAR",
             "ARGUMENT_DEFINITION", "INPUT_FIELD_DEFINITION", "INPUT_OBJECT"}))
    @@ ("is.String" :> Scalar("String"))
    @@ ("is.Boolean" :> Scalar("Boolean"))
    @@ ("is.[__Type]" :> List("is.__Type"))
    @@ ("is.[__Field]" :> List("is.__Field"))
    @@ ("is.[__InputValue]" :> List("is.__InputValue"))
    @@ ("is.[__EnumValue]" :> List("is.__EnumValue"))
    @@ ("is.[__Directive]" :> List("is.__Directive"))
    @@ ("is.[DirectiveLocation]" :> List("is.DirectiveLocation"))

RECURSIVE collectTypes(_, _), collectEach(_, _), collectFields(_, _, _)

\* Mutant: the loop body is never entered.
collectEach_Skip(typs, types) == types

\* for _, t := range typs { collectTypes(t, types) }
collectEach(typs, types) ==
    IF typs = {} THEN types
    ELSE LET t == CHOOSE x \in typs : TRUE
         IN  collectEach(typs \ {t}, collectTypes(t, types))

\* Mutant: the arguments of the fields are not visited.
RECURSIVE collectFields_NoArgs(_, _, _)
collectFields_NoArgs(Fields, names, types) ==
    IF names = {} THEN types
    ELSE LET k == CHOOSE x \in names : TRUE
         IN  collectFields_NoArgs(Fields, names \ {k},
                 collectTypes(Fields[k].Type, types))

\* for _, field := range Fields: the field's type, then its arguments.
collectFields(Fields, names, types) ==
    IF names = {} THEN types
    ELSE LET k == CHOOSE x \in names : TRUE
             field == Fields[k]
         IN  collectFields(Fields, names \ {k},
                 collectEach(Range(field.Args), collectTypes(field.Type, types)))

\* collectTypes(typ, types): the map with every named type reached from typ
\* added under its name, unless the name is taken already.
collectTypes(typ, types) ==
    IF typ = "nil" THEN types
    ELSE LET t == heap[typ] IN
      CASE t.kind = "Object" ->
             IF t.Name \in DOMAIN types THEN types
             ELSE collectFields(t.Fields, DOMAIN t.Fields, Extend(types, t.Name, typ))
        [] t.kind = "Union" ->
             IF t.Name \in DOMAIN types THEN types
             ELSE collectEach(t.Types, Extend(types, t.Name, typ))
        [] t.kind = "Interface" ->
             IF t.Name \in DOMAIN types THEN types
             ELSE collectEach(t.Types,
                    collectFields(t.Fields, DOMAIN t.Fields, Extend(types, t.Name, typ)))
        [] t.kind = "List" -> collectTypes(t.Type, types)
        [] t.kind = "Scalar" ->
             IF t.Type \in DOMAIN types THEN types ELSE Extend(types, t.Type, typ)
        [] t.kind = "Enum" ->
             IF t.Type \in DOMAIN types THEN types ELSE Extend(types, t.Type, typ)
        [] t.kind = "InputObject" ->
             IF t.Name \in DOMAIN types THEN types
             ELSE collectEach(Range(t.InputFields), Extend(types, t.Name, typ))
        [] t.kind = "NonNull" -> collectTypes(t.Type, types)
        [] OTHER -> types

\* for k, v := range query.Fields { isQuery.Fields[k] = v }
MergeFields(isFields, queryFields) ==
    [k \in DOMAIN isFields \cup DOMAIN queryFields |->
        IF k \in DOMAIN queryFields THEN queryFields[k] ELSE isFields[k]]

\* Mutant: the overlay's fields are written into the user's Query object
\* and the root is left alone.
AddIntrospectionToSchema_IntoUserQuery ==
    /\ ~is.set
    /\ is' = [set |-> TRUE,
              types |-> collectEach({schema.Query, schema.Mutation,
                                     schema.Subscription}, EmptyMap),
              query |-> schema.Query, mutation |-> schema.Mutation,
              subscription |-> schema.Subscription]
    /\ heap' = [isSchema(OverlayQueryFields) @@ heap EXCEPT
                   ![schema.Query].Fields = MergeFields(OverlayQueryFields, @)]
    /\ UNCHANGED <<rb, gp, ex, wr, schema, scalarVars, inputVars, probe, reqs>>

\* AddIntrospectionToSchema(schema), called once on a built schema.
AddIntrospectionToSchema ==
    /\ ~is.set
    /\ LET types == collectTypes(schema.Subscription,
                      collectTypes(schema.Mutation,
                        collectTypes(schema.Query, EmptyMap)))
           query == heap[schema.Query]
       IN  /\ is' = [set |-> TRUE, types |-> types, query |-> schema.Query,
                     mutation |-> schema.Mutation,
                     subscription |-> schema.Subscription]
           /\ heap' = isSchema(MergeFields(OverlayQueryFields, query.Fields)) @@ heap
           /\ schema' = [schema EXCEPT !.Query = "is.Query"]
    /\ UNCHANGED <<rb, gp, ex, wr, scalarVars, inputVars, probe, reqs>>

\* __Type.kind
Type_kind(t) ==
    LET Inner == heap[t] IN
    CASE Inner.kind = "Object"      -> "OBJECT"
      [] Inner.kind = "Union"       -> "UNION"
      [] Inner.kind = "Interface"   -> "INTERFACE"
      [] Inner.kind = "Scalar"      -> "SCALAR"
      [] Inner.kind = "Enum"        -> "ENUM"
      [] Inner.kind = "List"        -> "LIST"
      [] Inner.kind = "InputObject" -> "INPUT_OBJECT"
      [] Inner.kind = "NonNull"     -> "NON_NULL"
      [] OTHER -> ""

\* __Type.name
Type_name(t) ==
    LET Inner == heap[t] IN
    CASE Inner.kind \in {"Object", "Union", "Interface", "InputObject"} -> Inner.Name
      [] Inner.kind \in {"Scalar", "Enum"} -> Inner.Type
      [] OTHER -> ""

Entry(name, isDeprecated) == [name |-> name, isDeprecated |-> isDeprecated]

\* __Type.inputFields: every input field, deprecated ones marked.
Type_inputFields(t) ==
    LET Inner == heap[t] IN
    IF Inner.kind = "InputObject"
    THEN {Entry(name, name \in DOMAIN Inner.FieldDeprecations
                      /\ Inner.FieldDeprecations[name] # "")
          : name \in DOMAIN Inner.InputFields}
    ELSE {}

\* __Type.fields(includeDeprecated): the argument is not read.
Type_fields(t, IncludeDeprecated) ==
    LET Inner == heap[t] IN
    IF Inner.kind \in {"Object", "Interface"}
    THEN {Entry(name, Inner.Fields[name].IsDeprecated) : name \in DOMAIN Inner.Fields}
    ELSE {}

\* __Type.enumValues(includeDeprecated): the argument is not read.
Type_enumValues(t, IncludeDeprecated) ==
    LET Inner == heap[t] IN
    IF Inner.kind = "Enum"
    THEN {Entry(v, FALSE) : v \in Inner.ReverseMap}
    ELSE {}

\* Query.__type(name): the type collected under the name, or nil.
Query__type(Name) ==
    IF Name \in DOMAIN is.types THEN is.types[Name] ELSE "nil"

NamedKinds == {"Object", "Union", "Interface", "Scalar", "Enum", "InputObject"}

\* The names a client may ask `__type` for: every type name in the program
\* and one that names nothing.
ProbeNames ==
    {Type_name(t) : t \in {x \in DOMAIN heap : heap[x].kind \in NamedKinds}}
    \cup {"Nope"}

IncludeDeprecatedArgs == {"omitted", "true", "false"}

\* The executor resolves a field of the Query root by calling its Resolve.
ExecQueryField ==
    /\ \E f \in DOMAIN heap[schema.Query].Fields :
          probe' = [NoProbe EXCEPT !.op = "field", !.name = f,
                       !.resolver = heap[schema.Query].Fields[f].Resolve]
    /\ UNCHANGED <<rb, gp, ex, wr, scalarVars, inputVars, schemaVars, reqs>>

\* The Query root's `__type` field is the introspection resolver.
ServesType ==
    /\ is.set
    /\ "__type" \in DOMAIN heap[schema.Query].Fields
    /\ heap[schema.Query].Fields["__type"].Resolve = <<"introspection", "Query", "__type">>

\* { __type(name: N) { name kind } }
ExecType ==
    /\ ServesType
    /\ \E N \in ProbeNames :
          LET t == Query__type(N) IN
          probe' = [NoProbe EXCEPT !.op = "__type", !.name = N,
                       !.resolver = <<"introspection", "Query", "__type">>,
                       !.isNull = (t = "nil"),
                       !.rname = IF t = "nil" THEN "" ELSE Type_name(t),
                       !.rkind = IF t = "nil" THEN "" ELSE Type_kind(t)]
    /\ UNCHANGED <<rb, gp, ex, wr, scalarVars, inputVars, schemaVars, reqs>>

\* { __type(name: N) { fields(includeDeprecated: a) { name isDeprecated } } }
ExecTypeFields ==
    /\ ServesType
    /\ \E N \in DOMAIN is.types, a \in IncludeDeprecatedArgs :
          probe' = [NoProbe EXCEPT !.op = "fields", !.name = N,
                       !.includeDeprecated = a, !.isNull = FALSE,
                       !.entries = Type_fields(Query__type(N), a)]
    /\ UNCHANGED <<rb, gp, ex, wr, scalarVars, inputVars, schemaVars, reqs>>

\* { __type(name: N) { enumValues(includeDeprecated: a) { name isDeprecated } } }
ExecTypeEnumValues ==
    /\ ServesType
    /\ \E N \in DOMAIN is.types, a \in IncludeDeprecatedArgs :
          probe' = [NoProbe EXCEPT !.op = "enumValues", !.name = N,
                       !.includeDeprecated = a, !.isNull = FALSE,
                       !.entries = Type_enumValues(Query__type(N), a)]
    /\ UNCHANGED <<rb, gp, ex, wr, scalarVars, inputVars, schemaVars, reqs>>

\* { __type(name: N) { inputFields { name isDeprecated } } }
ExecTypeInputFields ==
    /\ ServesType
    /\ \E N \in DOMAIN is.types :
          probe' = [NoProbe EXCEPT !.op = "inputFields", !.name = N,
                       !.isNull = FALSE,
                       !.entries = Type_inputFields(Query__type(N))]
    /\ UNCHANGED <<rb, gp, ex, wr, scalarVars, inputVars, schemaVars, reqs>>

\* Mutant: the types are sorted by their kind.
TypeString_Kind(t) == Type_kind(t)

\* Inner.String() of a collected type, the key `__schema` sorts by.
TypeString(t) == Type_name(t)

RECURSIVE Perms(_)
Perms(S) ==
    IF S = {} THEN {<<>>}
    ELSE UNION {{<<x>> \o q : q \in Perms(S \ {x})} : x \in S}

\* sort.Slice over a slice filled in map iteration order.  The sort is not
\* stable and the iteration order is any, so elements with equal keys come
\* out in any order.  An outcome gives, for each key, the order of the
\* elements that have it; the keys themselves are in string order.
RECURSIVE SortSlice(_, _)
SortSlice(elems, keys) ==
    IF keys = {} THEN {EmptyMap}
    ELSE LET k == CHOOSE x \in keys : TRUE IN
         {Extend(f, k, q) : f \in SortSlice(elems, keys \ {k}),
                            q \in Perms({t \in elems : TypeString(t) = k})}

\* Query.__schema: the collected types, sorted by Inner.String().
Schema_types ==
    SortSlice(Range(is.types), {TypeString(t) : t \in Range(is.types)})

\* { __schema { types { name } } }
ExecSchemaTypes ==
    /\ is.set
    /\ "__schema" \in DOMAIN heap[schema.Query].Fields
    /\ heap[schema.Query].Fields["__schema"].Resolve
          = <<"introspection", "Query", "__schema">>
    /\ \E types \in Schema_types :
          probe' = [NoProbe EXCEPT !.op = "__schema",
                       !.resolver = <<"introspection", "Query", "__schema">>,
                       !.isNull = FALSE, !.sorted = types]
    /\ UNCHANGED <<rb, gp, ex, wr, scalarVars, inputVars, schemaVars, reqs>>

\* The named type under the List and NonNull wrappers.
RECURSIVE NamedType(_)
NamedType(t) ==
    IF heap[t].kind \in {"List", "NonNull"} THEN NamedType(heap[t].Type) ELSE t

\* Mutant: the address of SpecifiedByURL is returned for every scalar.
Type_specifiedByURL_AnyScalar(t) ==
    LET Inner == heap[t] IN
    IF Inner.kind = "Scalar" THEN Inner.SpecifiedByURL ELSE "null"

\* __Type.specifiedByURL: the URL of a scalar that has one, else null.
Type_specifiedByURL(t) ==
    LET Inner == heap[t] IN
    IF Inner.kind = "Scalar"
    THEN IF Inner.SpecifiedByURL # "" THEN Inner.SpecifiedByURL ELSE "null"
    ELSE "null"

\* The types introspection hands out as __Type values: the collected named
\* types and the List and NonNull wrappers over them.
ExposedTypes == {t \in DOMAIN heap : NamedType(t) \in Range(is.types)}

\* { ... specifiedByURL } on any __Type value.
ExecTypeSpecifiedByURL ==
    /\ is.set
    /\ \E t \in ExposedTypes :
          probe' = [NoProbe EXCEPT !.op = "specifiedByURL", !.type = t,
                       !.isNull = FALSE,
                       !.specifiedByURL = Type_specifiedByURL(t)]
    /\ UNCHANGED <<rb, gp, ex, wr, scalarVars, inputVars, schemaVars, reqs>>

\* An __InputValue of __Type.inputFields with its deprecation.
InputValue(name, isDeprecated, deprecationReason) ==
    [name |-> name, isDeprecated |-> isDeprecated,
     deprecationReason |-> deprecationReason]

\* __Type.inputFields, each entry with isDeprecated and deprecationReason.
Type_inputValues(t) ==
    LET Inner == heap[t] IN
    IF Inner.kind = "InputObject"
    THEN {IF name \in DOMAIN Inner.FieldDeprecations
             /\ Inner.FieldDeprecations[name] # ""
          THEN InputValue(name, TRUE, Inner.FieldDeprecations[name])
          ELSE InputValue(name, FALSE, "null")
          : name \in DOMAIN Inner.InputFields}
    ELSE {}

\* Mutant: @oneOf on every input object.
Type_directives_AnyInputObject(t) ==
    IF heap[t].kind = "InputObject" THEN {"oneOf"} ELSE {}

\* Type.directives(): @oneOf on an input object whose OneOf flag is set.
Type_directives(t) ==
    LET Inner == heap[t] IN
    IF Inner.kind = "InputObject" /\ Inner.OneOf THEN {"oneOf"} ELSE {}

\* { __type(name: N) { inputFields { name isDeprecated deprecationReason }
\*                     directives { name } } }   for an input object N
ExecTypeInputObject ==
    /\ ServesType
    /\ \E N \in {n \in DOMAIN is.types : heap[is.types[n]].kind = "InputObject"} :
          probe' = [NoProbe EXCEPT !.op = "inputObject", !.name = N,
                       !.isNull = FALSE,
                       !.entries = Type_inputValues(Query__type(N)),
                       !.directives = Type_directives(Query__type(N))]
    /\ UNCHANGED <<rb, gp, ex, wr, scalarVars, inputVars, schemaVars, reqs>>

\* { ... directives { name } } on any __Type value.
ExecTypeDirectives ==
    /\ is.set
    /\ \E t \in ExposedTypes :
          probe' = [NoProbe EXCEPT !.op = "directives", !.type = t,
                       !.isNull = FALSE,
                       !.directives = Type_directives(t)]
    /\ UNCHANGED <<rb, gp, ex, wr, scalarVars, inputVars, schemaVars, reqs>>

(***************************************************************************)
(* THE CANONICAL INTROSPECTION QUERY                                       *)
(***************************************************************************)

\* How deep the TypeRef fragment nests ofType.
TypeRefDepth == 7

\* A selection: the field, the arguments given, the selection set below it
\* (<<>> for none).
Selection(name, args, sub) == [name |-> name, args |-> args, sub |-> sub]

Leaves(names) == {Selection(n, {}, <<>>) : n \in names}

\* The selection sets of IntrospectionQuery: the operation, the selections
\* written inline and the fragments FullType, InputValue and TypeRef; and
\* those of the fullIntrospection query of TestFullFeatures, which selects
\* isOneOf on the entries of types.
SelectionSet(id) ==
    CASE id = <<"IntrospectionQuery">> ->
           {Selection("__schema", {}, <<"__schema">>)}
      [] id = <<"__schema">> ->
           {Selection("queryType", {}, <<"name">>),
            Selection("mutationType", {}, <<"name">>),
            Selection("subscriptionType", {}, <<"name">>),
            Selection("types", {}, <<"FullType">>),
            Selection("directives", {}, <<"directives", TRUE>>)}
      [] id = <<"name">> -> Leaves({"name"})
      [] id = <<"directives", TRUE>> ->
           Leaves({"name", "description", "locations"})
           \cup {Selection("args", {}, <<"InputValue">>)}
      [] id = <<"directives", FALSE>> ->
           Leaves({"name", "description", "locations"})
      [] id = <<"FullType">> ->
           Leaves({"kind", "name", "description", "specifiedByURL"})
           \cup {Selection("fields", {"includeDeprecated"}, <<"fields">>),
                 Selection("inputFields", {}, <<"InputValue">>),
                 Selection("interfaces", {}, <<"TypeRef", 0>>),
                 Selection("enumValues", {"includeDeprecated"}, <<"enumValues">>),
                 Selection("possibleTypes", {}, <<"TypeRef", 0>>),
                 Selection("directives", {}, <<"directives", FALSE>>)}
      [] id = <<"fields">> ->
           Leaves({"name", "description", "isDeprecated", "deprecationReason"})
           \cup {Selection("args", {}, <<"InputValue">>),
                 Selection("type", {}, <<"TypeRef", 0>>)}
      [] id = <<"enumValues">> ->
           Leaves({"name", "description", "isDeprecated", "deprecationReason"})
      [] id = <<"InputValue">> ->
           Leaves({"name", "description", "defaultValue", "isDeprecated",
                   "deprecationReason"})
           \cup {Selection("type", {}, <<"TypeRef", 0>>)}
      [] id = <<"fullIntrospection">> ->
           {Selection("__schema", {}, <<"full.__schema">>)}
      [] id = <<"full.__schema">> ->
           {Selection("queryType", {}, <<"name">>),
            Selection("mutationType", {}, <<"name">>),
            Selection("directives", {}, <<"full.directives">>),
            Selection("types", {}, <<"full.types">>)}
      [] id = <<"full.directives">> ->
           Leaves({"name", "description", "locations"})
           \cup {Selection("args", {}, <<"full.args">>)}
      [] id = <<"full.args">> ->
           Leaves({"name", "description"})
           \cup {Selection("type", {}, <<"full.type">>)}
      [] id = <<"full.type">> -> Leaves({"name", "kind"})
      [] id = <<"full.types">> ->
           Leaves({"name", "kind", "specifiedByURL", "isOneOf"})
           \cup {Selection("fields", {}, <<"name">>),
                 Selection("interfaces", {}, <<"name">>),
                 Selection("possibleTypes", {}, <<"name">>),
                 Selection("enumValues", {}, <<"name">>),
                 Selection("inputFields", {}, <<"name">>)}
      [] id[1] = "TypeRef" ->
           Leaves({"kind", "name"})
           \cup (IF id[2] < TypeRefDepth
                 THEN {Selection("ofType", {}, <<"TypeRef", id[2] + 1>>)}
                 ELSE {})

\* graphql.ValidateQuery(ctx, typ, selectionSet): every selected field is a
\* field of the type, every argument given is declared, a scalar or enum
\* field has no selection set and any other field has a valid one.
RECURSIVE ValidateQuery(_, _)
ValidateQuery(typ, id) ==
    \A sel \in SelectionSet(id) :
       /\ heap[typ].kind \in {"Object", "Interface"}
       /\ sel.name \in DOMAIN heap[typ].Fields
       /\ sel.args \subseteq DOMAIN heap[typ].Fields[sel.name].Args
       /\ LET result == NamedType(heap[typ].Fields[sel.name].Type)
          IN  IF heap[result].kind \in {"Scalar", "Enum"}
              THEN sel.sub = <<>>
              ELSE sel.sub # <<>> /\ ValidateQuery(result, sel.sub)

\* ComputeSchemaJSON after AddIntrospectionToSchema: the query is parsed,
\* validated against the Query root and executed; the introspection
\* resolvers return no error.
ExecIntrospectionQuery ==
    /\ is.set
    /\ probe' = [NoProbe EXCEPT !.op = "IntrospectionQuery",
                    !.err = IF ValidateQuery(schema.Query, <<"IntrospectionQuery">>)
                            THEN "nil" ELSE "validation error"]
    /\ UNCHANGED <<rb, gp, ex, wr, scalarVars, inputVars, schemaVars, reqs>>

\* The fullIntrospection query posted to a server whose schema has
\* introspection added: validated against the Query root before execution.
ExecFullIntrospection ==
    /\ is.set
    /\ probe' = [NoProbe EXCEPT !.op = "fullIntrospection",
                    !.err = IF ValidateQuery(schema.Query, <<"fullIntrospection">>)
                            THEN "nil" ELSE "validation error"]
    /\ UNCHANGED <<rb, gp, ex, wr, scalarVars, inputVars, schemaVars, reqs>>

(***************************************************************************)
(* THE HTTP HANDLER                                                        *)
(***************************************************************************)

\* The requests net/http serves at the same time, each on its goroutine.
Requests == {"r1", "r2"}

\* The most top-level selections an operation has.
MaxSel == 2

Methods == {"GET", "HEAD", "POST", "PUT"}

\* r.Body: absent, not JSON, or a JSON document with a query.
Bodies == {"nil", "malformed", "json"}

Kinds == {"query", "mutation", "subscription"}

\* What graphql.Parse returns: an error, or a query of some kind with its
\* top-level selections.
ParseResults ==
    {[err |-> "parse error", Kind |-> "", nsel |-> 0]}
    \cup {[err |-> "nil", Kind |-> k, nsel |-> n] : k \in Kinds, n \in 1..MaxSel}

\* The characters of a URL path that matter to the playground page: a
\* plain one, the single quote and the backslash.
PathChars == {"g", "quote", "backslash"}

\* The most characters of r.URL.Path after the leading slash.
MaxPathLen == 2

RECURSIVE SeqsUpTo(_)
SeqsUpTo(n) ==
    IF n = 0 THEN {<<>>}
    ELSE LET shorter == SeqsUpTo(n - 1) IN
         shorter \cup {Append(q, c) : q \in {x \in shorter : Len(x) = n - 1},
                                      c \in PathChars}

\* r.URL.Path, decoded by net/http.
Paths == {<<"/">> \o q : q \in SeqsUpTo(MaxPathLen)}

\* The Content-Type an outer handler may have set on w before ServeHTTP.
PresetHeaders == {"", "text/plain"}

FreshWriter == [Header |-> "", Path |-> <<"/", "g">>]

InitWriter == wr = [r \in Requests |-> FreshWriter]

NoResponse ==
    [written |-> FALSE, status |-> 0, contentType |-> "", body |-> "none",
     Data |-> "null", Errors |-> <<>>, endpoint |-> <<>>]

\* jerrors.ConvertError(err): the error as an entry of the errors list.
ConvertError(err) ==
    [message |-> err, extensions |-> [code |-> "Unknown"], paths |-> <<>>]

\* json.Marshal(response) fails on a Data value encoding/json rejects; the
\* errors list alone always marshals.
MarshalFails(value, err) == err = "nil" /\ value = "unmarshalable"

\* Mutant: an error is answered with an HTTP error status.
writeResponse_ErrorStatus(w, value, err) ==
    [NoResponse EXCEPT
        !.written = TRUE, !.status = IF err # "nil" THEN 500 ELSE 200,
        !.contentType = IF w.Header = "" THEN "application/json" ELSE w.Header,
        !.body = "envelope",
        !.Data = IF err # "nil" THEN "null" ELSE value,
        !.Errors = IF err # "nil" THEN <<ConvertError(err)>> ELSE <<>>]

\* The writeResponse closure on writer w: an error gives the errors list and
\* leaves Data nil, else the value is the data; a response that does not
\* marshal is answered by http.Error; the Content-Type is set unless w
\* already has one.
writeResponse(w, value, err) ==
    IF MarshalFails(value, err)
    THEN [NoResponse EXCEPT !.written = TRUE, !.status = 500,
                            !.contentType = "text/plain; charset=utf-8",
                            !.body = "text"]
    ELSE [NoResponse EXCEPT
            !.written = TRUE, !.status = 200,
            !.contentType = IF w.Header = "" THEN "application/json" ELSE w.Header,
            !.body = "envelope",
            !.Data = IF err # "nil" THEN "null" ELSE value,
            !.Errors = IF err # "nil" THEN <<ConvertError(err)>> ELSE <<>>]

\* servePlayground(w, title, graphqlEndpoint): the page, with the endpoint
\* text put between the single quotes of `endpoint: '%s'`.
servePlayground(w, graphqlEndpoint) ==
    [NoResponse EXCEPT !.written = TRUE, !.status = 200,
                       !.contentType = "text/html; charset=utf-8",
                       !.body = "html", !.endpoint = graphqlEndpoint]

\* What a browser reads from the text between the quotes of a JavaScript
\* string literal: a backslash takes the next character, a quote closes
\* the literal, and text after the closing quote breaks the statement.
RECURSIVE JSStringLiteral(_, _)
JSStringLiteral(text, read) ==
    IF text = <<>> THEN [ok |-> TRUE, value |-> read]
    ELSE IF Head(text) = "quote" THEN [ok |-> FALSE, value |-> read]
    ELSE IF Head(text) = "backslash"
    THEN IF Len(text) = 1 THEN [ok |-> FALSE, value |-> read]
         ELSE JSStringLiteral(Tail(Tail(text)), Append(read, text[2]))
    ELSE JSStringLiteral(Tail(text), Append(read, Head(text)))

\* The endpoint GraphQLPlayground.init is configured with by the page.
ConfiguredEndpoint(resp) == JSStringLiteral(resp.endpoint, <<>>)

\* A goroutine not serving a request.  sel: the state of each top-level
\* selection (pending, running: its resolver was invoked, done).
IdleRequest ==
    [pc |-> "idle", Method |-> "", Body |-> "", Kind |-> "", nsel |-> 0,
     failed |-> "",
     root |-> "nil", sel |-> [i \in 1..MaxSel |-> "none"],
     resp |-> NoResponse]

InitHTTP == reqs = [r \in Requests |-> IdleRequest]

\* The message of a POST without a body.
ErrNoBody_NotPost == "request must be a POST"

ErrNoBody == "request must include a query"

\* Mutant: ServeHTTP falls through to the execution after the error.
AfterError_FallThrough == "exec"

\* Where ServeHTTP goes after it wrote the error of a failed step: it
\* returns.
AfterError == "done"

Failed(w, Method, step, err) ==
    [IdleRequest EXCEPT !.pc = AfterError, !.Method = Method, !.failed = step,
                        !.resp = writeResponse(w, "null", err)]

\* ServeHTTP from its entry to the return of graphql.Parse.
ServeHTTP(r) ==
    /\ reqs[r].pc = "idle"
    /\ \E Method \in Methods, Body \in Bodies, query \in ParseResults :
         reqs' = [reqs EXCEPT ![r] = [(
            IF Method \in {"GET", "HEAD"}
            THEN [IdleRequest EXCEPT !.pc = "done", !.Method = Method,
                                     !.resp = servePlayground(wr[r], wr[r].Path)]
            ELSE IF Method # "POST"
            THEN Failed(wr[r], Method, "method", "request must be a POST")
            ELSE IF Body = "nil"
            THEN Failed(wr[r], Method, "body", ErrNoBody)
            ELSE IF Body = "malformed"
            THEN Failed(wr[r], Method, "decode", "invalid JSON")
            ELSE IF query.err # "nil"
            THEN Failed(wr[r], Method, "parse", query.err)
            ELSE [IdleRequest EXCEPT
                    !.pc = "parsed", !.Method = Method, !.Kind = query.Kind,
                    !.nsel = query.nsel,
                    !.sel = [i \in 1..MaxSel |->
                               IF i <= query.nsel THEN "pending" ELSE "none"]]
            ) EXCEPT !.Body = Body]]
    /\ UNCHANGED <<rb, gp, ex, wr, scalarVars, inputVars, schemaVars, probe>>

\* ServeHTTP picks the root and calls graphql.ValidateQuery.
ServeHTTPValidate(r) ==
    /\ reqs[r].pc = "parsed"
    /\ \E err \in {"nil", "validation error"} :
         LET root == IF reqs[r].Kind = "mutation" THEN schema.Mutation
                     ELSE schema.Query
         IN  reqs' = [reqs EXCEPT ![r] =
                IF err # "nil"
                THEN [@ EXCEPT !.root = root, !.failed = "validate",
                               !.resp = writeResponse(wr[r], "null", err),
                               !.pc = AfterError]
                ELSE [@ EXCEPT !.root = root, !.pc = "exec"]]
    /\ UNCHANGED <<rb, gp, ex, wr, scalarVars, inputVars, schemaVars, probe>>

\* Mutant: a top-level selection starts whatever the others are doing.
CanStart_Unordered(Kind, sel, i) == sel[i] = "pending"

\* Executor.Execute: a top-level selection of a mutation starts once every
\* selection before it has completed; those of a query in any order.
CanStart(Kind, sel, i) ==
    /\ sel[i] = "pending"
    /\ Kind = "mutation" => \A j \in 1..(i - 1) : sel[j] \in {"done", "failed"}

\* The resolver of top-level selection i is invoked.
ExecuteStart(r) ==
    /\ reqs[r].pc = "exec"
    /\ \E i \in 1..MaxSel :
         /\ CanStart(reqs[r].Kind, reqs[r].sel, i)
         /\ reqs' = [reqs EXCEPT ![r].sel[i] = "running"]
    /\ UNCHANGED <<rb, gp, ex, wr, scalarVars, inputVars, schemaVars, probe>>

\* Top-level selection i, its sub-selections included, completes.
ExecuteFinish(r) ==
    /\ reqs[r].pc = "exec"
    /\ \E i \in 1..MaxSel :
         /\ reqs[r].sel[i] = "running"
         /\ reqs' = [reqs EXCEPT ![r].sel[i] = "done"]
    /\ UNCHANGED <<rb, gp, ex, wr, scalarVars, inputVars, schemaVars, probe>>

\* The resolver of top-level selection i returns an error.
ExecuteFail(r) ==
    /\ reqs[r].pc = "exec"
    /\ \E i \in 1..MaxSel :
         /\ reqs[r].sel[i] = "running"
         /\ reqs' = [reqs EXCEPT ![r].sel[i] = "failed"]
    /\ UNCHANGED <<rb, gp, ex, wr, scalarVars, inputVars, schemaVars, probe>>

\* What Execute returns as (output, err).  Without a failed resolver: a
\* value, which encoding/json may reject.  With one: the error, with or
\* without the partial tree, or the partial tree alone.
ExecuteReturns(sel) ==
    IF \E i \in DOMAIN sel : sel[i] = "failed"
    THEN {[output |-> "null", err |-> "resolver error"],
          [output |-> "partial", err |-> "resolver error"],
          [output |-> "partial", err |-> "nil"]}
    ELSE {[output |-> "value", err |-> "nil"],
          [output |-> "unmarshalable", err |-> "nil"]}

\* h.exec returned: writeResponse(output, err).
ServeHTTPRespond(r) ==
    /\ reqs[r].pc = "exec"
    /\ \A i \in 1..MaxSel : reqs[r].sel[i] \in {"none", "done", "failed"}
    /\ \E ret \in ExecuteReturns(reqs[r].sel) :
         reqs' = [reqs EXCEPT ![r].resp = writeResponse(wr[r], ret.output, ret.err),
                              ![r].pc = "done"]
    /\ UNCHANGED <<rb, gp, ex, wr, scalarVars, inputVars, schemaVars, probe>>

\* ServeHTTP returns; the goroutine takes the next request.
ServeHTTPReturn(r) ==
    /\ reqs[r].pc = "done"
    /\ reqs' = [reqs EXCEPT ![r] = IdleRequest]
    /\ UNCHANGED <<rb, gp, ex, wr, scalarVars, inputVars, schemaVars, probe>>

(***************************************************************************)
(* THE EXECUTOR (graphql.Executor.Execute)                                 *)
(***************************************************************************)

\* The operation executed, each selection named by its position:
\*   { v: viewer { name  f: friend { id } }  a: me { id } }
Positions == {"v", "v.name", "v.f", "v.f.id", "a", "a.id"}

\* The sub-selections of a position in source order.
Selections(p) ==
    CASE p = "root" -> <<"v", "a">>
      [] p = "v"    -> <<"v.name", "v.f">>
      [] p = "v.f"  -> <<"v.f.id">>
      [] p = "a"    -> <<"a.id">>
      [] OTHER      -> <<>>

\* The alias of a selection (the field name where none is given).
Alias(p) ==
    CASE p = "v" -> "v"
      [] p = "v.name" -> "name"
      [] p = "v.f" -> "f"
      [] p = "v.f.id" -> "id"
      [] p = "a" -> "a"
      [] p = "a.id" -> "id"

Parent(p) == CHOOSE q \in Positions \cup {"root"} : p \in Range(Selections(q))

\* The error path of a position: the aliases from the root.
RECURSIVE Path(_)
Path(p) == IF p = "root" THEN <<>> ELSE Append(Path(Parent(p)), Alias(p))

RECURSIVE AncestorsOrSelf(_)
AncestorsOrSelf(p) ==
    IF p = "root" THEN {"root"} ELSE {p} \cup AncestorsOrSelf(Parent(p))

\* The values of the result tree.
NullValue == [t |-> "null", kv |-> <<>>]
LeafValue == [t |-> "value", kv |-> <<>>]
ObjectValue(kv) == [t |-> "object", kv |-> kv]
Bubble == [t |-> "bubble", kv |-> <<>>]
Absent == [t |-> "absent", kv |-> <<>>]

\* An executor that has not started, over a schema whose result types are
\* NonNull where nonNull says so.
NewExecution(nonNull) ==
    [NonNull |-> nonNull,
     resolved |-> [p \in Positions |-> "pending"],
     keys |-> [p \in {"root", "v", "v.f", "a"} |-> <<>>],
     errors |-> <<>>, done |-> FALSE, data |-> Absent]

InitExecutorIdle == ex = NewExecution([p \in Positions |-> FALSE])

InitExecutor == \E nonNull \in [Positions -> BOOLEAN] : ex = NewExecution(nonNull)

\* Mutant: the result is appended when its resolver completes.
InsertKey_Append(keys, parent, p) == Append(keys, p)

\* The result of selection p is assigned under its alias, in the slot of
\* the selection: the keys assigned so far stay in source order.
InsertKey(keys, parent, p) ==
    LET Assigned(c) == c \in Range(keys) \cup {p}
    IN  SelectSeq(Selections(parent), Assigned)

\* Mutant: a null bubbles whatever the type of the position.
Bubbles_Always(e, p, raw) == p # "root" /\ raw = NullValue

\* A null at a NonNull position is not a value of it: it bubbles to the
\* parent position.
Bubbles(e, p, raw) == p # "root" /\ raw = NullValue /\ e.NonNull[p]

\* The value of position p in the result: the recursive descent that
\* carries the expected type.
RECURSIVE Complete(_, _)
Complete(e, p) ==
    LET raw ==
          IF p # "root" /\ e.resolved[p] \in {"null", "error"} THEN NullValue
          ELSE IF Selections(p) = <<>> THEN LeafValue
          ELSE LET kv == [i \in 1..Len(e.keys[p]) |->
                            [key |-> Alias(e.keys[p][i]),
                             value |-> Complete(e, e.keys[p][i])]]
               IN  IF \E i \in DOMAIN kv : kv[i].value = Bubble
                   THEN NullValue
                   ELSE ObjectValue(kv)
    IN  IF Bubbles(e, p, raw) THEN Bubble ELSE raw

\* A selection whose parent object is there and whose resolver has not run.
Resolvable(p) ==
    /\ ex.resolved[p] = "pending"
    /\ IF Parent(p) = "root" THEN TRUE ELSE ex.resolved[Parent(p)] = "value"

\* The resolver of selection p returns: a value, null, or an error.  An
\* error, and a null at a NonNull position, is recorded with the path.
Resolve(p) ==
    /\ ~ex.done
    /\ Resolvable(p)
    /\ \E r \in {"value", "null", "error"} :
          ex' = [ex EXCEPT
                   !.resolved[p] = r,
                   !.keys[Parent(p)] = InsertKey(@, Parent(p), p),
                   !.errors = IF r = "error" \/ (r = "null" /\ ex.NonNull[p])
                              THEN Append(@, [path |-> Path(p), kind |-> r])
                              ELSE @]
    /\ UNCHANGED <<rb, gp, wr, scalarVars, inputVars, schemaVars, probe, reqs>>

\* Every selection that can run has run: the result tree is shaped.
ExecuteReturn ==
    /\ ~ex.done
    /\ \A p \in Positions : ~Resolvable(p)
    /\ ex' = [ex EXCEPT !.done = TRUE, !.data = Complete(ex, "root")]
    /\ UNCHANGED <<rb, gp, wr, scalarVars, inputVars, schemaVars, probe, reqs>>

(***************************************************************************)
(* ARGUMENT PARSER GENERATION (schemaBuilder.makeInputObjectParser)        *)
(***************************************************************************)

\* Struct types registered as input objects, and one that is not.
ParserTypes == {"A", "B"}

Unregistered == "U"

\* How the source type of a field's conversion function refers to a struct:
\* T (value), *T (ptr), []T (slice), or no such field.
RefKinds == {"none", "value", "ptr", "slice"}

\* sb.inputObjects: per registered type, the fields obj.Fields gives it, one
\* per struct type referred to.
InputGraphs ==
    {g \in [ParserTypes \X (ParserTypes \cup {Unregistered}) -> RefKinds] :
        /\ g[<<"A", Unregistered>>] = "none"
        /\ g[<<"B", Unregistered>>] \in {"none", "value"}}

\* The goroutine stack, counted in calls of generateObjectParserInner.
MaxStack == 4

\* A call of generateObjectParserInner(typ) and the fields of
\* "range obj.Fields" it has not visited yet.
Frame(g, typ) ==
    [typ |-> typ,
     todo |-> {f \in ParserTypes \cup {Unregistered} : g[<<typ, f>>] # "none"}]

NoParserRun(g) == [graph |-> g, stack |-> <<>>, result |-> "idle"]

InitParserIdle ==
    gp = NoParserRun([e \in ParserTypes \X (ParserTypes \cup {Unregistered}) |-> "none"])

InitParser == \E g \in InputGraphs : gp = NoParserRun(g)

\* makeInputObjectParser on an args struct with one field of type A:
\* generateArgParser calls generateObjectParser(A), which calls
\* generateObjectParserInner(A).
makeInputObjectParser ==
    /\ gp.result = "idle"
    /\ gp' = [gp EXCEPT !.result = "running", !.stack = <<Frame(gp.graph, "A")>>]
    /\ UNCHANGED <<rb, ex, wr, scalarVars, inputVars, schemaVars, probe, reqs>>

\* One iteration of "for name, function := range obj.Fields" in the call on
\* top of the stack: getInputFieldParser(sourceTyp) strips a pointer, or goes
\* through generateSliceParser for a slice, and for a struct calls
\* generateObjectParser and so generateObjectParserInner again.  No call
\* consults sb.typeCache or any other record of the types in progress.  A type
\* that is not in sb.inputObjects returns an error, which every caller
\* returns in turn.
getInputFieldParser ==
    /\ gp.result = "running"
    /\ LET n == Len(gp.stack)
           top == gp.stack[n]
       IN  /\ top.todo # {}
           /\ \E f \in top.todo :
                 IF f \notin ParserTypes
                    THEN gp' = [gp EXCEPT !.result = "error", !.stack = <<>>]
                    ELSE IF n = MaxStack
                       THEN gp' = [gp EXCEPT !.result = "overflow"]
                       ELSE gp' = [gp EXCEPT
                                     !.stack = Append(
                                        [@ EXCEPT ![n].todo = @ \ {f}],
                                        Frame(gp.graph, f))]
    /\ UNCHANGED <<rb, ex, wr, scalarVars, inputVars, schemaVars, probe, reqs>>

\* The call on top of the stack has visited every field and returns its
\* parser; the outermost return is makeInputObjectParser's.
generateObjectParserInner_Return ==
    /\ gp.result = "running"
    /\ LET n == Len(gp.stack) IN
          /\ gp.stack[n].todo = {}
          /\ gp' = [gp EXCEPT !.stack = SubSeq(@, 1, n - 1),
                              !.result = IF n = 1 THEN "ok" ELSE @]
    /\ UNCHANGED <<rb, ex, wr, scalarVars, inputVars, schemaVars, probe, reqs>>

(***************************************************************************)
(* ROOT OBJECT REGISTRATION (Schema.Query, Mutation, Subscription)         *)
(***************************************************************************)

RootNames == {"Query", "Mutation", "Subscription"}

\* Field names handed to Object.FieldFunc.
RootFieldNames == {"f1", "f2"}

\* Calls of Query(), Mutation() and Subscription() made before Build().
MaxRootCalls == 4

\* Addresses of schemabuilder.Object values; 0 is nil.
ObjectAddrs == 1..(MaxRootCalls + 1)

\* schemabuilder.NewSchema(): no root object yet.  objects: the address of
\* each root object; methods: the methods map of the object at each address;
\* held: the handles returned to callers; registered: the FieldFunc calls
\* that returned; built: the fields of the built root types.
NewSchema ==
    [objects |-> [K \in RootNames |-> 0],
     methods |-> [a \in ObjectAddrs |-> {}],
     next |-> 1,
     calls |-> 0,
     held |-> {},
     registered |-> {},
     panicked |-> FALSE,
     built |-> FALSE,
     roots |-> [K \in RootNames |-> {}]]

InitNewSchema == rb = NewSchema

\* A root accessor that makes a new object on every call.
RootObject_Fresh(objects, K, next) == next

\* The object a root accessor returns: made at the first call, the same one
\* afterwards.
RootObject(objects, K, next) == IF objects[K] = 0 THEN next ELSE objects[K]

\* schema.Query(), schema.Mutation() or schema.Subscription().
CallRoot(K) ==
    /\ ~rb.built /\ ~rb.panicked
    /\ rb.calls < MaxRootCalls
    /\ LET a == RootObject(rb.objects, K, rb.next) IN
          rb' = [rb EXCEPT !.objects[K] = a,
                           !.next = IF a = @ THEN @ + 1 ELSE @,
                           !.calls = @ + 1,
                           !.held = @ \cup {<<K, a>>}]
    /\ UNCHANGED <<gp, ex, wr, scalarVars, inputVars, schemaVars, probe, reqs>>

\* handle.FieldFunc(name, f) on a handle some earlier call returned: a name
\* already in the methods map panics, any other is stored.
CallObjectFieldFunc ==
    /\ ~rb.built /\ ~rb.panicked
    /\ \E h \in rb.held, name \in RootFieldNames :
          IF name \in rb.methods[h[2]]
             THEN rb' = [rb EXCEPT !.panicked = TRUE]
             ELSE rb' = [rb EXCEPT !.methods[h[2]] = @ \cup {name},
                                   !.registered = @ \cup {<<h[1], name>>}]
    /\ UNCHANGED <<gp, ex, wr, scalarVars, inputVars, schemaVars, probe, reqs>>

\* Schema.Build(): each root type gets the methods of the root object the
\* schema holds.
BuildRoots ==
    /\ ~rb.built /\ ~rb.panicked
    /\ rb' = [rb EXCEPT
                !.built = TRUE,
                !.roots = [K \in RootNames |->
                              IF rb.objects[K] = 0 THEN {}
                              ELSE rb.methods[rb.objects[K]]]]
    /\ UNCHANGED <<gp, ex, wr, scalarVars, inputVars, schemaVars, probe, reqs>>

(***************************************************************************)
(* SPECIFICATIONS                                                          *)
(***************************************************************************)

\* The program after start-up: the scalar registry as loaded, no parser
\* called yet, the example schema built, no request in flight.
InitServer ==
    /\ InitScalar /\ InitInputIdle /\ InitNewSchema /\ InitParserIdle /\ InitBuilderExample /\ InitSchemaExample
    /\ InitHTTP /\ InitWriter /\ InitExecutorIdle

NextScalar == CallRegisterScalar \/ CallRegisterScalarVariadic

SpecScalar == InitServer /\ [][NextScalar]_vars

NextInput == CoerceRegistered \/ CoerceInline

SpecInput == InitServer /\ [][NextInput]_vars

\* Requests are served over a built schema to which introspection is added
\* at some moment.
NextHTTP ==
    \/ AddIntrospectionToSchema
    \/ \E r \in Requests : ServeHTTP(r)
    \/ \E r \in Requests : ServeHTTPValidate(r)
    \/ \E r \in Requests : ExecuteStart(r)
    \/ \E r \in Requests : ExecuteFinish(r)
    \/ \E r \in Requests : ServeHTTPRespond(r)
    \/ \E r \in Requests : ServeHTTPReturn(r)

SpecHTTP == InitServer /\ [][NextHTTP]_vars

\* One request at a time is served on any response writer and URL path,
\* and its resolvers may fail.
InitTransport ==
    /\ InitScalar /\ InitInputIdle /\ InitNewSchema /\ InitParserIdle /\ InitBuilderExample /\ InitSchemaExample
    /\ InitHTTP /\ InitExecutorIdle
    /\ \E h \in PresetHeaders, path \in Paths :
          wr = [r \in Requests |-> [Header |-> h, Path |-> path]]

NextTransport ==
    \/ ServeHTTP("r1")
    \/ ServeHTTPValidate("r1")
    \/ ExecuteStart("r1")
    \/ ExecuteFinish("r1")
    \/ ExecuteFail("r1")
    \/ ServeHTTPRespond("r1")
    \/ ServeHTTPReturn("r1")

SpecTransport == InitTransport /\ [][NextTransport]_vars

\* Any of the user schemas gets introspection added and is then queried.
InitIntro ==
    /\ InitScalar /\ InitInputIdle /\ InitNewSchema /\ InitParserIdle /\ InitBuilderExample /\ InitHTTP /\ InitWriter /\ InitExecutorIdle
    /\ \E qf \in SUBSET OptionalQueryFields, mf \in BOOLEAN : InitSchema(qf, mf)

NextIntro ==
    \/ AddIntrospectionToSchema
    \/ ExecQueryField
    \/ ExecType
    \/ ExecTypeFields
    \/ ExecTypeEnumValues
    \/ ExecTypeInputFields
    \/ ExecIntrospectionQuery
    \/ ExecSchemaTypes
    \/ ExecFullIntrospection

SpecIntro == InitIntro /\ [][NextIntro]_vars

\* Input objects are registered, the schema is built, introspection is
\* added and the input objects are looked up.
InitBuild == InitScalar /\ InitInputIdle /\ InitNewSchema /\ InitParserIdle /\ InitUnbuilt /\ InitHTTP /\ InitWriter /\ InitExecutorIdle

NextBuild ==
    \/ CallMarkOneOf
    \/ CallInputObjectFieldFunc
    \/ Build
    \/ (sb.built /\ AddIntrospectionToSchema)
    \/ ExecTypeInputObject

SpecBuild == InitBuild /\ [][NextBuild]_vars

\* One operation is executed, its resolvers completing in any order.
InitExec ==
    /\ InitScalar /\ InitInputIdle /\ InitNewSchema /\ InitParserIdle /\ InitBuilderExample /\ InitSchemaExample
    /\ InitHTTP /\ InitWriter /\ InitExecutor

NextExec == (\E p \in Positions : Resolve(p)) \/ ExecuteReturn

SpecExec == InitExec /\ [][NextExec]_vars

\* An args struct over any graph of registered input objects gets its parser
\* generated.
InitGenerate ==
    /\ InitScalar /\ InitInputIdle /\ InitNewSchema /\ InitBuilderExample /\ InitSchemaExample
    /\ InitHTTP /\ InitWriter /\ InitExecutorIdle /\ InitParser

NextGenerate ==
    \/ makeInputObjectParser
    \/ getInputFieldParser
    \/ generateObjectParserInner_Return

SpecGenerate == InitGenerate /\ [][NextGenerate]_vars

\* Root handles are obtained and used in any order, then the schema is built.
InitRoots ==
    /\ InitScalar /\ InitInputIdle /\ InitNewSchema /\ InitParserIdle
    /\ InitBuilderExample /\ InitSchemaExample
    /\ InitHTTP /\ InitWriter /\ InitExecutorIdle

NextRoots ==
    \/ \E K \in RootNames : CallRoot(K)
    \/ CallObjectFieldFunc
    \/ BuildRoots

SpecRoots == InitRoots /\ [][NextRoots]_vars

\* Scalars are registered, the schema is built, introspection is added and
\* specifiedByURL and directives are read off the exposed types.
InitTypeInfo ==
    /\ InitScalar /\ InitInputIdle /\ InitNewSchema /\ InitParserIdle
    /\ InitUnbuilt /\ InitHTTP /\ InitWriter /\ InitExecutorIdle

NextTypeInfo ==
    \/ CallRegisterScalarOnce
    \/ Build
    \/ (sb.built /\ AddIntrospectionToSchema)
    \/ ExecTypeSpecifiedByURL
    \/ ExecTypeDirectives

SpecTypeInfo == InitTypeInfo /\ [][NextTypeInfo]_vars

(***************************************************************************)
(* PROPERTIES                                                              *)
(***************************************************************************)

CoercedObject == coerceJob.typ \in InputTypeNames /\ coerceJob.value.t = "obj"

\* C3: coercing a JSON object into an input object flagged OneOf passes the
\* oneOf check exactly when one entry is non-null; with zero or with two or
\* more non-null entries it is rejected with the oneOf error naming the
\* input type.  A OneOf object nested in a field is rejected likewise.
C3_OneOfExactlyOne ==
    CoercedObject =>
      LET T == coerceJob.typ
          m == coerceJob.value.m
      IN  /\ OneOf(T) =>
                /\ (NonNullCount(m) # 1 => coerceOut.err = Err("oneOf", T))
                /\ (NonNullCount(m) = 1 => coerceOut.err.kind # "oneOf")
          /\ \A f \in NestedFieldsOf(T) :
                (OneOf(FieldSpec(T, f).typ) /\ f \in DOMAIN m /\ m[f].t = "obj") =>
                   /\ (NonNullCount(m[f].m) # 1 => coerceOut.err.kind # "nil")
                   /\ (NonNullCount(m[f].m) = 1 => coerceOut.err.kind # "oneOf")

\* A OneOf input object given {} is rejected with the error naming it.
C3_Witness ==
    /\ coerceJob.typ = "IdentifierInput"
    /\ coerceJob.value.t = "obj"
    /\ DOMAIN coerceJob.value.m = {}
    /\ coerceOut.err = Err("oneOf", "IdentifierInput")

\* C4: when the oneOf check of a OneOf input object fails, none of its
\* FieldFunc callables has been invoked and its destination is not written.
C4_CheckBeforeConversion ==
    CoercedObject =>
      LET T == coerceJob.typ
          m == coerceJob.value.m
      IN  /\ (OneOf(T) /\ NonNullCount(m) # 1) =>
                (coerceOut.calls = {} /\ ~coerceOut.wrote)
          /\ \A f \in NestedFieldsOf(T) :
                (/\ OneOf(FieldSpec(T, f).typ)
                 /\ f \in DOMAIN m
                 /\ m[f].t = "obj"
                 /\ NonNullCount(m[f].m) # 1) =>
                   /\ \A c \in coerceOut.calls : c[1] # FieldSpec(T, f).typ
                   /\ <<T, f>> \notin coerceOut.calls

\* A OneOf input object with two well-typed entries: rejected, nothing called.
C4_Witness ==
    /\ coerceJob.typ = "IdentifierInput"
    /\ coerceJob.value = JObj([id |-> JStr, email |-> JStr])
    /\ coerceOut.err.kind = "oneOf"
    /\ coerceOut.calls = {}

\* C5: coercing a JSON object that holds a key NAME which is no declared
\* field of the input type fails, at the top level and in a nested input
\* object.  (The claim also names the error, `unknown arg NAME`; an earlier
\* check of the same coercion may report its own error first, so the
\* formula asks only for what every reading of the claim requires: that the
\* coercion does not succeed.)
C5_UnknownArgRejected ==
    CoercedObject =>
      LET T == coerceJob.typ
          m == coerceJob.value.m
      IN  /\ (DOMAIN m \ FieldsOf(T) # {}) => coerceOut.err.kind # "nil"
          /\ \A f \in NestedFieldsOf(T) :
                (/\ f \in DOMAIN m
                 /\ m[f].t = "obj"
                 /\ DOMAIN m[f].m \ FieldsOf(FieldSpec(T, f).typ) # {}) =>
                   coerceOut.err.kind # "nil"

\* C7: the scalar registry is append-only: no RegisterScalar call modifies
\* or removes an existing entry, and a call whose GraphQL name is already
\* registered returns an error.
C7_RegistryAppendOnly ==
    [][/\ \A t \in DOMAIN scalars :
             t \in DOMAIN scalars' /\ scalars'[t] = scalars[t]
       /\ \A t \in DOMAIN scalarSpecifiedByURLs :
             /\ t \in DOMAIN scalarSpecifiedByURLs'
             /\ scalarSpecifiedByURLs'[t] = scalarSpecifiedByURLs[t]
       /\ \A t \in DOMAIN scalarArgParsers :
             t \in DOMAIN scalarArgParsers' /\ scalarArgParsers'[t] = scalarArgParsers[t]
       /\ (regRet'.name \in Range(scalars) => regRet'.err # "nil")]_vars

\* C1: a POST request whose query fails parsing or validation never reaches
\* the execution: no resolver of it is ever invoked, and its response has
\* data = null and a non-empty errors list.
C1_NoExecutionAfterFailure ==
    \A r \in Requests :
       reqs[r].failed \in {"parse", "validate"} =>
          /\ \A i \in 1..MaxSel : reqs[r].sel[i] \in {"none", "pending"}
          /\ reqs[r].resp.written
          /\ reqs[r].resp.Data = "null"
          /\ Len(reqs[r].resp.Errors) > 0

\* A mutation that failed validation has been answered.
C1_Witness ==
    \E r \in Requests :
       /\ reqs[r].Method = "POST"
       /\ reqs[r].Kind = "mutation"
       /\ reqs[r].failed = "validate"
       /\ reqs[r].resp.written

\* C2: in a mutation the resolvers of the top-level selections are invoked
\* one at a time in source order: whenever the resolver of selection i has
\* been invoked, every selection before it has completed.
C2_MutationSequential ==
    \A r \in Requests :
       reqs[r].Kind = "mutation" =>
          \A i \in 1..MaxSel :
             reqs[r].sel[i] \in {"running", "done"} =>
                \A j \in 1..(i - 1) : reqs[r].sel[j] = "done"

\* A mutation whose second selection runs after the first completed.
C2_Witness ==
    \E r \in Requests :
       /\ reqs[r].Kind = "mutation"
       /\ reqs[r].sel[1] = "done"
       /\ reqs[r].sel[2] = "running"

\* C6 (as the code has it): serving requests never changes the built
\* schema.  The one operation that does is AddIntrospectionToSchema: it
\* replaces the Query root by the overlay's Query object and allocates the
\* overlay's types; it writes no type of the user's schema and leaves the
\* Mutation and Subscription roots alone.
C6_OnlyAddIntrospectionWrites ==
    [][/\ \A t \in DOMAIN heap : t \in DOMAIN heap' /\ heap'[t] = heap[t]
       /\ schema'.Mutation = schema.Mutation
       /\ schema'.Subscription = schema.Subscription
       /\ (schema' # schema \/ heap' # heap) =>
             /\ ~is.set
             /\ is'.set
             /\ reqs' = reqs
             /\ schema'.Query = "is.Query"]_vars

\* Introspection was added while a request validated against the old Query
\* root is executing.
C6_Witness ==
    /\ is.set
    /\ schema.Query = "is.Query"
    /\ \E r \in Requests :
          /\ reqs[r].pc = "exec"
          /\ reqs[r].root = "Query"
          /\ \E i \in 1..MaxSel : reqs[r].sel[i] = "running"

\* C6 (as stated): once built, nothing changes the schema's root pointers
\* or writes a type-model map.
C6_SchemaImmutable ==
    [][schema' = schema /\ heap' = heap]_vars

\* The step relation of `reachable from a root`: field results, arguments,
\* input fields, union members, interface implementers, wrapped types.
Successors(t) ==
    LET n == heap[t] IN
    {n.Fields[f].Type : f \in DOMAIN n.Fields}
    \cup UNION {Range(n.Fields[f].Args) : f \in DOMAIN n.Fields}
    \cup n.Types
    \cup Range(n.InputFields)
    \cup (IF n.kind \in {"List", "NonNull"} THEN {n.Type} ELSE {})

RECURSIVE Closure(_)
Closure(S) ==
    LET next == S \cup UNION {Successors(t) : t \in S}
    IN  IF next = S THEN S ELSE Closure(next)

ReachableNamed ==
    {t \in Closure({schema.Query, schema.Mutation, schema.Subscription} \ {"nil"}) :
        heap[t].kind \in NamedKinds}

\* C8: with introspection added, `__type(name: N)` for the name N of a named
\* type reachable from a root of the schema returns a non-null type whose
\* name is N and whose kind is that of the type's variant.
C8_TypeLookupComplete ==
    (is.set /\ probe.op = "__type") =>
       \A t \in ReachableNamed :
          Type_name(t) = probe.name =>
             /\ ~probe.isNull
             /\ probe.rname = probe.name
             /\ probe.rkind = Type_kind(t)

\* C9: `fields`, `enumValues` and `inputFields` return an entry whose
\* isDeprecated is true only when includeDeprecated is true; with the
\* argument omitted they return none.
C9_DeprecatedFiltered ==
    (probe.op \in {"fields", "enumValues", "inputFields"}
     /\ probe.includeDeprecated # "true") =>
       \A e \in probe.entries : ~e.isDeprecated

\* C10: after AddIntrospectionToSchema the Query root has every field of
\* both sets; `__schema` and `__type` resolve through the introspection
\* resolvers and a field the user registered through the user's resolver.
C10_MergeKeepsBothSets ==
    is.set =>
       /\ DOMAIN heap[is.query].Fields \cup {"__schema", "__type"}
             \subseteq DOMAIN heap[schema.Query].Fields
       /\ probe.op = "field" =>
             /\ probe.name \in {"__schema", "__type"} =>
                   probe.resolver = <<"introspection", "Query", probe.name>>
             /\ probe.name \in DOMAIN heap[is.query].Fields =>
                   probe.resolver = heap[is.query].Fields[probe.name].Resolve

\* C11: on every built schema with introspection added the canonical
\* IntrospectionQuery parses, validates and executes without error.
C11_IntrospectionQueryRuns ==
    probe.op = "IntrospectionQuery" => probe.err = "nil"

\* C12: once Build() has succeeded, an input object on which MarkOneOf() was
\* called and whose struct does not embed OneOfInput is built with its
\* OneOf flag set.
C12_MarkOneOfBuilt ==
    sb.built =>
        \A T \in DOMAIN sb.inputObjects :
            (sb.inputObjects[T].IsOneOf /\ ~sb.inputObjects[T].marker)
                => heap[T].OneOf

\* C13: introspection shows an input field registered with FieldFunc and
\* Deprecated(reason) as isDeprecated = true with that reason, and a field
\* registered without the option (and without a deprecation tag) as
\* isDeprecated = false.
C13_FieldFuncDeprecation ==
    (probe.op = "inputObject" /\ probe.name \in DOMAIN sb.inputObjects) =>
        LET io == sb.inputObjects[probe.name] IN
        \A name \in DOMAIN io.Fields :
            IF name \in DOMAIN io.FieldDeprecations
            THEN InputValue(name, TRUE, io.FieldDeprecations[name]) \in probe.entries
            ELSE name \notin DOMAIN io.tags
                    => InputValue(name, FALSE, "null") \in probe.entries

\* C14 (as the code has it): a POST that fails in body decoding, parsing,
\* validation or execution is answered with the envelope; an envelope goes
\* out with status 200 and with Content-Type application/json unless the
\* writer already carried a Content-Type, which is kept; the one other
\* answer is status 500 with text/plain, for an executed result that does
\* not marshal.
C14_PostEnvelopeUnlessUnmarshalable ==
    \A r \in Requests :
       (reqs[r].pc = "done" /\ reqs[r].Method = "POST") =>
          LET resp == reqs[r].resp
              execFailed == \E i \in 1..MaxSel : reqs[r].sel[i] = "failed"
          IN  /\ resp.written
              /\ (reqs[r].failed # "" \/ (execFailed /\ resp.Errors # <<>>))
                    => resp.body = "envelope"
              /\ resp.body = "envelope" =>
                    /\ resp.status = 200
                    /\ resp.contentType = IF wr[r].Header = ""
                                          THEN "application/json"
                                          ELSE wr[r].Header
              /\ resp.body # "envelope" =>
                    /\ resp.status = 500
                    /\ resp.contentType = "text/plain; charset=utf-8"
                    /\ reqs[r].failed = ""
                    /\ ~execFailed

\* A POST whose execution failed was answered with the envelope as
\* application/json on a fresh writer.
C14_Witness ==
    \E r \in Requests :
       /\ reqs[r].pc = "done" /\ reqs[r].Method = "POST"
       /\ \E i \in 1..MaxSel : reqs[r].sel[i] = "failed"
       /\ wr[r].Header = ""
       /\ reqs[r].resp.body = "envelope"
       /\ reqs[r].resp.Errors # <<>>
       /\ reqs[r].resp.contentType = "application/json"

\* C14 (as stated): every POST is answered with status 200, Content-Type
\* application/json and the envelope.
C14_PostAlwaysEnvelope ==
    \A r \in Requests :
       (reqs[r].pc = "done" /\ reqs[r].Method = "POST") =>
          /\ reqs[r].resp.status = 200
          /\ reqs[r].resp.contentType = "application/json"
          /\ reqs[r].resp.body = "envelope"

C16_PlaygroundEndpoint ==
    \A r \in Requests :
       (reqs[r].pc = "done" /\ reqs[r].Method \in {"GET", "HEAD"}) =>
          /\ reqs[r].resp.status = 200
          /\ reqs[r].resp.contentType = "text/html; charset=utf-8"
          /\ reqs[r].resp.body = "html"
          /\ ConfiguredEndpoint(reqs[r].resp) = [ok |-> TRUE, value |-> wr[r].Path]
          /\ reqs[r].Kind = "" /\ reqs[r].root = "nil"
          /\ \A i \in 1..MaxSel : reqs[r].sel[i] = "none"

\* C18: when the resolver of one selection failed and a sibling completed,
\* the response carries the sibling results in data together with the
\* error in errors.
C18_SiblingResultsDelivered ==
    \A r \in Requests :
       (/\ reqs[r].pc = "done"
        /\ \E i \in 1..MaxSel : reqs[r].sel[i] = "failed"
        /\ \E j \in 1..MaxSel : reqs[r].sel[j] = "done") =>
          /\ reqs[r].resp.Data = "partial"
          /\ reqs[r].resp.Errors # <<>>

RECURSIVE Get(_, _)
Get(v, path) ==
    IF path = <<>> THEN v
    ELSE IF v.t # "object" THEN Absent
    ELSE LET hits == {i \in DOMAIN v.kv : v.kv[i].key = Head(path)} IN
         IF hits = {} THEN Absent
         ELSE Get(v.kv[CHOOSE i \in hits : TRUE].value, Tail(path))

\* The positions from p up to q, q left out.
RECURSIVE Chain(_, _)
Chain(p, q) == IF p = q THEN {} ELSE {p} \cup Chain(Parent(p), q)

\* q is the nearest nullable position at or above a position that resolved
\* to null: every position from that one up to q, q left out, is NonNull.
NullReaches(q) ==
    \E p \in Positions :
       /\ q \in AncestorsOrSelf(p)
       /\ ex.resolved[p] \in {"null", "error"}
       /\ \A r \in Chain(p, q) : ex.NonNull[r]

\* C17: a null (by error or by value) at a NonNull position makes exactly
\* the nearest enclosing nullable position null: a position of the result
\* is null if and only if such a null reaches it, every other position
\* that is not below a null keeps its value, and the errors recorded on the
\* way are all in the errors list.
C17_NullPropagation ==
    /\ \A p \in Positions :
          (ex.resolved[p] = "error" \/ (ex.resolved[p] = "null" /\ ex.NonNull[p]))
             => \E i \in DOMAIN ex.errors : ex.errors[i].path = Path(p)
    /\ ex.done =>
          \A q \in Positions \cup {"root"} :
             LET v == Get(ex.data, Path(q)) IN
             v # Absent =>
                /\ v # Bubble
                /\ (v = NullValue) <=> NullReaches(q)
                /\ (v # NullValue /\ Selections(q) = <<>>) => v = LeafValue
                /\ (v # NullValue /\ Selections(q) # <<>>) =>
                      /\ v.t = "object"
                      /\ {v.kv[i].key : i \in DOMAIN v.kv}
                            = {Alias(c) : c \in Range(Selections(q))}

\* friend.id failed at a NonNull position below a NonNull friend: viewer,
\* the nearest nullable position, is null, its sibling me kept its value,
\* and the error recorded before is still there.
C17_Witness ==
    /\ ex.done
    /\ ex.resolved["v.f.id"] = "error"
    /\ ex.NonNull["v.f.id"] /\ ex.NonNull["v.f"] /\ ~ex.NonNull["v"]
    /\ Get(ex.data, <<"v">>) = NullValue
    /\ Get(ex.data, <<"a">>).t = "object"
    /\ Len(ex.errors) = 2
    /\ ex.errors[1].path = <<"a", "id">>
    /\ ex.errors[2].path = <<"v", "f", "id">>

RECURSIVE ReachedTypes(_, _)
ReachedTypes(g, S) ==
    LET T == S \cup {y \in ParserTypes \cup {Unregistered} :
                        \E x \in S \cap ParserTypes : g[<<x, y>>] # "none"}
    IN  IF T = S THEN S ELSE ReachedTypes(g, T)

\* x refers to y through one or more fields whose kinds are all in kinds.
RECURSIVE RefersVia(_, _, _, _, _)
RefersVia(g, kinds, x, y, n) ==
    \/ g[<<x, y>>] \in kinds
    \/ /\ n > 0
       /\ \E z \in ParserTypes : g[<<x, z>>] \in kinds /\ RefersVia(g, kinds, z, y, n - 1)

NonNullSingularCycle(g) ==
    \E x \in ReachedTypes(g, {"A"}) \cap ParserTypes :
       RefersVia(g, {"value"}, x, x, Cardinality(ParserTypes))

\* C21: generating the parsers ends for every graph of registered input
\* objects: with an error when the graph holds a cycle of non-null singular
\* references, and with success when every cycle passes through a pointer or
\* a slice (and every type referred to is registered); it never ends by
\* exhausting the stack.
C21_BuildTerminates ==
    gp.result \in {"ok", "error", "overflow"} =>
       /\ gp.result # "overflow"
       /\ NonNullSingularCycle(gp.graph) => gp.result = "error"
       /\ (/\ ~NonNullSingularCycle(gp.graph)
           /\ Unregistered \notin ReachedTypes(gp.graph, {"A"}))
             => gp.result = "ok"

\* C22: every call of Query(), of Mutation() and of Subscription() on one
\* schema builder returns the same handle, and every field registered
\* through any of the handles is on the built root type.
C22_RootHandlesShared ==
    /\ \A g \in rb.held, h \in rb.held : g[1] = h[1] => g[2] = h[2]
    /\ rb.built => \A e \in rb.registered : e[2] \in rb.roots[e[1]]

\* Two calls of Mutation() were made, a field was registered after each, and
\* the schema was built.
C22_Witness ==
    /\ rb.built
    /\ rb.calls >= 2
    /\ rb.objects["Mutation"] # 0
    /\ {<<"Mutation", "f1">>, <<"Mutation", "f2">>} \subseteq rb.registered
    /\ rb.roots["Mutation"] = RootFieldNames

\* The types `__schema { types }` lists.
ListedTypes == UNION {Range(probe.sorted[k]) : k \in DOMAIN probe.sorted}

\* C23: for every Object type that `__schema.types` lists, the named type
\* under each argument type of each of its fields, List and NonNull
\* wrappers stripped, is listed as well.
C23_ArgTypesListed ==
    probe.op = "__schema" =>
       \A t \in ListedTypes :
          heap[t].kind = "Object" =>
             \A f \in DOMAIN heap[t].Fields :
                \A a \in Range(heap[t].Fields[f].Args) :
                   NamedType(a) \in ListedTypes

\* The types were listed for a schema whose mutation takes an input object
\* that only an argument refers to.
C23_Witness ==
    /\ probe.op = "__schema"
    /\ "Mutation" \in ListedTypes
    /\ "createUser" \in DOMAIN heap["Mutation"].Fields
    /\ NamedType(heap["Mutation"].Fields["createUser"].Args["input"]) = "CreateUserInput"
    /\ "CreateUserInput" \in ListedTypes

\* C28: a RegisterScalar call that returns an error leaves the type-to-name
\* map, the specifiedBy URL map and the parser map as they were.
C28_FailedCallWritesNothing ==
    [][regRet'.err # "nil" =>
          /\ scalars' = scalars
          /\ scalarSpecifiedByURLs' = scalarSpecifiedByURLs
          /\ scalarArgParsers' = scalarArgParsers]_vars

\* C29: for every native type registered successfully, the specifiedBy URL
\* recorded is the one its most recent successful registration supplied,
\* and empty when that registration supplied none.
C29_LatestURLRecorded ==
    \A typ \in DOMAIN regRet.given :
       getScalarSpecifiedByURL(typ) = regRet.given[typ]

\* The native type registered under the name of a scalar, "none" for a
\* scalar no RegisterScalar call of the program registered.
RegisteredAs(name) ==
    IF \E typ \in DOMAIN regRet.given : scalars[typ] = name
    THEN CHOOSE typ \in DOMAIN regRet.given : scalars[typ] = name
    ELSE "none"

C25_OneOfDirective ==
    probe.op = "directives" =>
       ("oneOf" \in probe.directives
           <=> (heap[probe.type].kind = "InputObject" /\ heap[probe.type].OneOf))

\* directives was read off an input object flagged OneOf, in a schema that
\* also has an input object that is not.
C25_Witness ==
    /\ probe.op = "directives"
    /\ probe.type = "IdentifierInput"
    /\ heap["IdentifierInput"].OneOf
    /\ ~heap["CreateUserInput"].OneOf
    /\ probe.directives = {"oneOf"}

\* C26: an introspection query that selects `isOneOf` on the entries of
\* `__schema.types` validates and executes.
C26_IsOneOfQueryRuns ==
    probe.op = "fullIntrospection" => probe.err = "nil"

\* C27: the HTTP handler validates and executes every operation against
\* the root type of the operation's kind: a query against the Query root, a
\* mutation against the Mutation root, a subscription against the
\* Subscription root.
C27_RootMatchesKind ==
    \A r \in Requests :
       reqs[r].root # "nil" =>
          reqs[r].root = CASE reqs[r].Kind = "query" -> schema.Query
                           [] reqs[r].Kind = "mutation" -> schema.Mutation
                           [] reqs[r].Kind = "subscription" -> schema.Subscription

\* The named types reachable from the roots AddIntrospectionToSchema started
\* collectTypes from.
ReachableFromRoots ==
    {t \in Closure({is.query, is.mutation, is.subscription} \ {"nil"}) :
        heap[t].kind \in NamedKinds}

\* C30: collectTypes returns on every type graph, cyclic ones included, and
\* on return every named type reachable from the starting types is
\* recorded under its name, once, and nothing else is recorded.
C30_CollectTypesComplete ==
    is.set =>
       /\ DOMAIN is.types = {Type_name(t) : t \in ReachableFromRoots}
       /\ \A t \in ReachableFromRoots : is.types[Type_name(t)] = t
       /\ \A n \in DOMAIN is.types, k \in DOMAIN is.types :
             is.types[n] = is.types[k] => n = k

\* collectTypes returned on a graph with a cycle through object fields
\* (User.friends), an interface, a union and input fields.
C30_Witness ==
    /\ is.set
    /\ "User" \in Closure(Successors("User"))
    /\ {"Node", "SearchResult", "CreateUserInput", "IdentifierInput", "User"}
          \subseteq DOMAIN is.types

=============================================================================
